---- MODULE Spec2Model ----
(***************************************************************************)
(* Verification model of swain90/flashloan-arb.                            *)
(*                                                                         *)
(* Three sub-systems, each with its own specification:                     *)
(*   SpecContract  FlashloanArbitrage.sol   (src/unnamed/part_000)         *)
(*   SpecBot       processQueue / TradeExecutor (index.ts, executor.ts)    *)
(*   SpecMirror    PriceMonitor + ArbitrageDetector (part_004, executor.ts)*)
(* and four more that put them to work:                                    *)
(*   SpecPipeline  the executor sending its transactions to the contract   *)
(*   SpecCalc      single calls of the pure functions on drawn arguments   *)
(*   SpecFlashLoan the contract's flashloan entry points, each call kept   *)
(*                 with its arguments                                      *)
(*   SpecWatcher   the Sync watchers called with batches of logs           *)
(*   SpecBotFair   SpecBot with the bot's pending steps and the clock      *)
(*                 never held back for ever                                *)
(*                                                                         *)
(* Token amounts are counted in units of 10^14 wei, so that 1 WETH         *)
(* (10n ** 18n in the source) is 10000 units and every product stays in    *)
(* the integer range of the model checker.                                 *)
(***************************************************************************)
EXTENDS Integers, Sequences, FiniteSets, TLC

VARIABLES
    \* ---- FlashloanArbitrage contract storage (part_000:23-41) ----
    approvedRouters,      \* set of routers r with approvedRouters[r] = true
    maxLossPerTx,
    dailyLossLimit,
    dailyLoss,
    lastResetTimestamp,
    paused,
    beneficiary,
    \* ---- contract environment ----
    balance,              \* flashToken.balanceOf(address(this))
    blockTime,            \* block.timestamp
    lastCall,             \* observation: the contract call made by the last step, if any
    operatorCleared,      \* observation: the owner lifted a pause while dailyLoss >= dailyLossLimit
                          \* and the contract has not been paused since
    \* ---- bot process (index.ts:15-32) ----
    state,                \* BotState: isPaused, totalProfit, totalTrades, ...
    tradeHistory,
    opportunityQueue,
    isProcessing,
    \* ---- position of the processQueue loop and of execute() inside it ----
    pc,                   \* "idle" | "simulate" | "gasPrice" | "send" | "receipt" | "cooldown"
    current,              \* the opportunity handed to executor.execute
    currentTx,            \* txHash awaited by waitForTransactionReceipt
    cooldownUntil,        \* when the cooldown timer fires
    \* ---- bot configuration and environment ----
    dryRun,
    simulateBeforeExecute,
    txs,                  \* transactions sent by the wallet, with their chain status
    now,                  \* Date.now()
    nextId,               \* opportunity ids handed out so far
    simReverted,          \* observation: ids of the opportunities whose simulation reverted
    executed,             \* observation: the opportunities passed to executor.execute, in
                          \* call order, each with what held at the time of the call
    dropped,              \* observation: ids shifted off the queue and skipped by `continue`
    \* ---- price monitor and detector (part_004:66-70, executor.ts:410-421) ----
    subscriptions,        \* pools discovered, in discovery order
    monitoring,           \* startMonitoring has installed the event watchers
    reserves,             \* PriceMonitor.reserves: pool -> PoolReserves
    graph,                \* ArbitrageDetector.graph: vertices, Map key order, edge lists
    highSeq,              \* observation: highest sequence delivered so far per pool
    lastDelivery,         \* observation: the log handled by the last onLogs run
    emitted,              \* opportunities the last detector run handed to the callback
    \* ---- a single call of one of the pure functions ----
    calcInput,            \* the arguments of the call
    calcOutput            \* what the call returned

contractVars == <<approvedRouters, maxLossPerTx, dailyLossLimit, dailyLoss,
                  lastResetTimestamp, paused, beneficiary, balance, blockTime,
                  lastCall, operatorCleared>>

botVars == <<state, tradeHistory, opportunityQueue, isProcessing, pc, current, currentTx,
             cooldownUntil, dryRun, simulateBeforeExecute, txs, now, nextId, simReverted,
             executed, dropped>>

mirrorVars == <<subscriptions, monitoring, reserves, graph, highSeq, lastDelivery, emitted>>

calcVars == <<calcInput, calcOutput>>

vars == <<contractVars, botVars, mirrorVars, calcVars>>

(***************************************************************************)
(*                     FlashloanArbitrage contract                         *)
(***************************************************************************)

Day == 86400                  \* `1 days`
TimeStep == Day \div 2         \* granularity of block timestamps in the model
MaxTicks == 3                 \* number of time steps explored
MaxAmount == 2                \* largest flash amount / deposit / limit explored
MaxDailyLoss == 4             \* executions are explored while dailyLoss stays below this

Owner == "owner"
Attacker == "attacker"
BALANCER_VAULT == "vault"
Senders == {Owner, Attacker, BALANCER_VAULT}
Routers == {"router"}
Beneficiaries == {"beneficiary", Attacker}
LossLimits == 1..2            \* values given to maxLossPerTx
DailyLimits == 1..3           \* values given to dailyLossLimit
Fees == 0..1                  \* feeAmounts[0] charged by the vault

\* repaid: flashToken sent to the vault; paidOut: flashToken sent to the beneficiary
NoTx == [op |-> "none", sender |-> "none", reverted |-> FALSE, error |-> "", loss |-> 0,
         repaid |-> 0, paidOut |-> 0]

Tx(op, sender, reverted, error, loss) ==
    [op |-> op, sender |-> sender, reverted |-> reverted, error |-> error, loss |-> loss,
     repaid |-> 0, paidOut |-> 0]

\* the call record of a completed flashloan callback with its two transfers
Settled(tx, cb) == [tx EXCEPT !.repaid = cb.repaid, !.paidOut = cb.paidOut]

\* constructor(_beneficiary, _maxLossPerTx, _dailyLossLimit)
InitContract ==
    /\ approvedRouters = {}
    /\ maxLossPerTx \in LossLimits
    /\ dailyLossLimit \in DailyLimits \ {1}
    /\ dailyLoss = 0
    /\ lastResetTimestamp = 0
    /\ paused = FALSE
    /\ beneficiary = "beneficiary"
    /\ balance = 0
    /\ blockTime = 0
    /\ lastCall = NoTx
    /\ operatorCleared = FALSE

\* A transaction that reverts changes no storage; only the observation records it.
Revert(op, sender, error) ==
    /\ lastCall' = Tx(op, sender, TRUE, error, 0)
    /\ UNCHANGED <<approvedRouters, maxLossPerTx, dailyLossLimit, dailyLoss,
                   lastResetTimestamp, paused, beneficiary, balance, blockTime,
                   operatorCleared>>

\* (mutant) the callback without the profit check
FlashLoanCallbackNoProfitCheck(dl, isPaused, router, amount, feeAmount, minProfit, balanceAfter) ==
    LET balanceBefore == balance + amount
        repayAmount == amount + feeAmount
        loss == IF balanceAfter < balanceBefore THEN balanceBefore - balanceAfter ELSE 0
        newLoss == dl + loss
    IN  IF router \notin approvedRouters
          THEN [reverted |-> TRUE, error |-> "RouterNotApproved", dailyLoss |-> dl,
                paused |-> isPaused, loss |-> 0, repaid |-> 0, paidOut |-> 0]
        ELSE IF loss > maxLossPerTx
          THEN [reverted |-> TRUE, error |-> "MaxLossExceeded", dailyLoss |-> dl,
                paused |-> isPaused, loss |-> 0, repaid |-> 0, paidOut |-> 0]
        ELSE [reverted |-> FALSE, error |-> "", dailyLoss |-> newLoss,
              paused |-> (isPaused \/ (loss > 0 /\ newLoss >= dailyLossLimit)),
              loss |-> loss, repaid |-> repayAmount,
              paidOut |-> IF balanceAfter > repayAmount THEN balanceAfter - repayAmount
                          ELSE 0]

\* receiveFlashLoan after the msg.sender check: the swaps leave balanceAfter
\* in the contract; dl and isPaused are the storage values on entry.
FlashLoanCallback(dl, isPaused, router, amount, feeAmount, minProfit, balanceAfter) ==
    LET balanceBefore == balance + amount
        repayAmount == amount + feeAmount
        loss == IF balanceAfter < balanceBefore THEN balanceBefore - balanceAfter ELSE 0
        newLoss == dl + loss
    IN  IF router \notin approvedRouters
          THEN [reverted |-> TRUE, error |-> "RouterNotApproved", dailyLoss |-> dl,
                paused |-> isPaused, loss |-> 0, repaid |-> 0, paidOut |-> 0]
        ELSE IF balanceAfter < repayAmount + minProfit
          THEN [reverted |-> TRUE, error |-> "InsufficientProfit", dailyLoss |-> dl,
                paused |-> isPaused, loss |-> 0, repaid |-> 0, paidOut |-> 0]
        ELSE IF loss > maxLossPerTx
          THEN [reverted |-> TRUE, error |-> "MaxLossExceeded", dailyLoss |-> dl,
                paused |-> isPaused, loss |-> 0, repaid |-> 0, paidOut |-> 0]
        \* safeTransfer(BALANCER_VAULT, repayAmount), then the whole remaining
        \* balance goes to the beneficiary
        ELSE [reverted |-> FALSE, error |-> "", dailyLoss |-> newLoss,
              paused |-> (isPaused \/ (loss > 0 /\ newLoss >= dailyLossLimit)),
              loss |-> loss, repaid |-> repayAmount,
              paidOut |-> balanceAfter - repayAmount]

\* (mutant) the window test with a strict comparison
WindowElapsedStrict == blockTime > lastResetTimestamp + Day

\* The daily-loss window test of executeArbitrage
WindowElapsed == blockTime >= lastResetTimestamp + Day

\* (mutant) executeArbitrage without the pause check
ExecuteArbitrageNoPauseCheck(sender, router, flashAmount, minProfit, balanceAfter) ==
    LET dl == IF WindowElapsed THEN 0 ELSE dailyLoss
        cb == FlashLoanCallback(dl, paused, router, flashAmount, 0, minProfit, balanceAfter)
    IN  IF cb.reverted THEN Revert("executeArbitrage", sender, cb.error)
        ELSE /\ dailyLoss' = cb.dailyLoss
             /\ lastResetTimestamp' = IF WindowElapsed THEN blockTime ELSE lastResetTimestamp
             /\ paused' = cb.paused
             /\ balance' = 0
             /\ operatorCleared' = (operatorCleared /\ ~cb.paused)
             /\ lastCall' = Settled(Tx("executeArbitrage", sender, FALSE, "", cb.loss), cb)
             /\ UNCHANGED <<approvedRouters, maxLossPerTx, dailyLossLimit, beneficiary,
                            blockTime>>

\* executeArbitrage(params): pause check, window reset, Balancer flashloan
\* (zero fee) with the callback executed inside the same transaction.
ExecuteArbitrage(sender, router, flashAmount, minProfit, balanceAfter) ==
    LET dl == IF WindowElapsed THEN 0 ELSE dailyLoss
        cb == FlashLoanCallback(dl, paused, router, flashAmount, 0, minProfit, balanceAfter)
    IN  IF paused THEN Revert("executeArbitrage", sender, "Paused")
        ELSE IF cb.reverted THEN Revert("executeArbitrage", sender, cb.error)
        ELSE /\ dailyLoss' = cb.dailyLoss
             /\ lastResetTimestamp' = IF WindowElapsed THEN blockTime ELSE lastResetTimestamp
             /\ paused' = cb.paused
             /\ balance' = 0      \* repayment to the vault, the rest to the beneficiary
             /\ operatorCleared' = (operatorCleared /\ ~cb.paused)
             /\ lastCall' = Settled(Tx("executeArbitrage", sender, FALSE, "", cb.loss), cb)
             /\ UNCHANGED <<approvedRouters, maxLossPerTx, dailyLossLimit, beneficiary,
                            blockTime>>

\* (mutant) receiveFlashLoan without the msg.sender check
ReceiveFlashLoanAnySender(sender, router, amount, feeAmount, minProfit, balanceAfter) ==
    LET cb == FlashLoanCallback(dailyLoss, paused, router, amount, feeAmount, minProfit,
                                balanceAfter)
    IN  IF cb.reverted THEN Revert("receiveFlashLoan", sender, cb.error)
        ELSE /\ dailyLoss' = cb.dailyLoss
             /\ paused' = cb.paused
             /\ balance' = 0
             /\ operatorCleared' = (operatorCleared /\ ~cb.paused)
             /\ lastCall' = Settled(Tx("receiveFlashLoan", sender, FALSE, "", cb.loss), cb)
             /\ UNCHANGED <<approvedRouters, maxLossPerTx, dailyLossLimit, beneficiary,
                            lastResetTimestamp, blockTime>>

\* receiveFlashLoan called directly: by a stranger (reverts) or by the vault
\* serving a flashLoan that names this contract as recipient.
ReceiveFlashLoan(sender, router, amount, feeAmount, minProfit, balanceAfter) ==
    LET cb == FlashLoanCallback(dailyLoss, paused, router, amount, feeAmount, minProfit,
                                balanceAfter)
    IN  IF sender # BALANCER_VAULT THEN Revert("receiveFlashLoan", sender, "NotBalancerVault")
        ELSE IF cb.reverted THEN Revert("receiveFlashLoan", sender, cb.error)
        ELSE /\ dailyLoss' = cb.dailyLoss
             /\ paused' = cb.paused
             /\ balance' = 0
             /\ operatorCleared' = (operatorCleared /\ ~cb.paused)
             /\ lastCall' = Settled(Tx("receiveFlashLoan", sender, FALSE, "", cb.loss), cb)
             /\ UNCHANGED <<approvedRouters, maxLossPerTx, dailyLossLimit, beneficiary,
                            lastResetTimestamp, blockTime>>

\* setRouterApproval(router, approved) external onlyOwner
SetRouterApproval(sender, router, approved) ==
    IF sender # Owner THEN Revert("setRouterApproval", sender, "OwnableUnauthorizedAccount")
    ELSE /\ approvedRouters' = IF approved THEN approvedRouters \cup {router}
                                           ELSE approvedRouters \ {router}
         /\ lastCall' = Tx("setRouterApproval", sender, FALSE, "", 0)
         /\ UNCHANGED <<maxLossPerTx, dailyLossLimit, dailyLoss, lastResetTimestamp,
                        paused, beneficiary, balance, blockTime, operatorCleared>>

\* (mutant) setBeneficiary without onlyOwner
SetBeneficiaryAnySender(sender, b) ==
    /\ beneficiary' = b
    /\ lastCall' = Tx("setBeneficiary", sender, FALSE, "", 0)
    /\ UNCHANGED <<approvedRouters, maxLossPerTx, dailyLossLimit, dailyLoss,
                   lastResetTimestamp, paused, balance, blockTime, operatorCleared>>

\* setBeneficiary(_beneficiary) external onlyOwner
SetBeneficiary(sender, b) ==
    IF sender # Owner THEN Revert("setBeneficiary", sender, "OwnableUnauthorizedAccount")
    ELSE /\ beneficiary' = b
         /\ lastCall' = Tx("setBeneficiary", sender, FALSE, "", 0)
         /\ UNCHANGED <<approvedRouters, maxLossPerTx, dailyLossLimit, dailyLoss,
                        lastResetTimestamp, paused, balance, blockTime, operatorCleared>>

\* setCircuitBreaker(_maxLossPerTx, _dailyLossLimit) external onlyOwner
SetCircuitBreaker(sender, newMaxLossPerTx, newDailyLossLimit) ==
    IF sender # Owner THEN Revert("setCircuitBreaker", sender, "OwnableUnauthorizedAccount")
    ELSE /\ maxLossPerTx' = newMaxLossPerTx
         /\ dailyLossLimit' = newDailyLossLimit
         /\ lastCall' = Tx("setCircuitBreaker", sender, FALSE, "", 0)
         /\ UNCHANGED <<approvedRouters, dailyLoss, lastResetTimestamp, paused,
                        beneficiary, balance, blockTime, operatorCleared>>

\* setPaused(_paused) external onlyOwner
SetPaused(sender, p) ==
    IF sender # Owner THEN Revert("setPaused", sender, "OwnableUnauthorizedAccount")
    ELSE /\ paused' = p
         /\ operatorCleared' = (~p /\ dailyLoss >= dailyLossLimit)
         /\ lastCall' = Tx("setPaused", sender, FALSE, "", 0)
         /\ UNCHANGED <<approvedRouters, maxLossPerTx, dailyLossLimit, dailyLoss,
                        lastResetTimestamp, beneficiary, balance, blockTime>>

\* An ERC-20 transfer of flashToken to the contract (no contract code runs)
Deposit(amount) ==
    /\ balance + amount <= MaxAmount
    /\ balance' = balance + amount
    /\ lastCall' = NoTx
    /\ UNCHANGED <<approvedRouters, maxLossPerTx, dailyLossLimit, dailyLoss,
                   lastResetTimestamp, paused, beneficiary, blockTime,
                   operatorCleared>>

\* A later block
AdvanceTime ==
    /\ blockTime + TimeStep <= MaxTicks * TimeStep
    /\ blockTime' = blockTime + TimeStep
    /\ lastCall' = NoTx
    /\ UNCHANGED <<approvedRouters, maxLossPerTx, dailyLossLimit, dailyLoss,
                   lastResetTimestamp, paused, beneficiary, balance,
                   operatorCleared>>

NextContract ==
    \* executeArbitrage has no access check: the caller makes no difference
    \/ \E s \in {Attacker}, r \in Routers, a \in 1..MaxAmount, m \in 0..1,
          b \in 0..(2 * MaxAmount + 1) :
            /\ b <= balance + a + 1
            /\ dailyLoss + balance <= MaxDailyLoss
            /\ ExecuteArbitrage(s, r, a, m, b)
            /\ UNCHANGED <<botVars, mirrorVars, calcVars>>
    \* the vault charges no fee ("feeAmounts should be 0 for Balancer")
    \/ \E r \in Routers, a \in 1..MaxAmount, m \in 0..1, b \in 0..(2 * MaxAmount + 1) :
            /\ b <= balance + a + 1
            /\ dailyLoss + balance <= MaxDailyLoss
            /\ ReceiveFlashLoan(BALANCER_VAULT, r, a, 0, m, b)
            /\ UNCHANGED <<botVars, mirrorVars, calcVars>>
    \* a stranger's call is refused before its arguments are looked at
    \/ \E r \in Routers :
          /\ ReceiveFlashLoan(Attacker, r, 1, 0, 0, 0)
          /\ UNCHANGED <<botVars, mirrorVars, calcVars>>
    \/ \E s \in {Owner, Attacker}, r \in Routers, ap \in BOOLEAN :
          /\ SetRouterApproval(s, r, ap)
          /\ UNCHANGED <<botVars, mirrorVars, calcVars>>
    \/ \E s \in {Owner, Attacker}, b \in Beneficiaries :
          /\ SetBeneficiary(s, b)
          /\ UNCHANGED <<botVars, mirrorVars, calcVars>>
    \/ \E s \in {Owner, Attacker}, ml \in LossLimits, dl \in DailyLimits :
          /\ SetCircuitBreaker(s, ml, dl)
          /\ UNCHANGED <<botVars, mirrorVars, calcVars>>
    \/ \E s \in {Owner, Attacker}, p \in BOOLEAN :
          /\ SetPaused(s, p)
          /\ UNCHANGED <<botVars, mirrorVars, calcVars>>
    \/ \E a \in 1..MaxAmount :
          /\ Deposit(a)
          /\ UNCHANGED <<botVars, mirrorVars, calcVars>>
    \/ /\ AdvanceTime
       /\ UNCHANGED <<botVars, mirrorVars, calcVars>>

(***************************************************************************)
(*        Opportunity queue and trade executor (index.ts, executor.ts)     *)
(***************************************************************************)

MaxOpps == 2                  \* opportunities delivered by the detectors
MaxBatch == 2                 \* opportunities in one detector callback
MaxClockTicks == 3            \* clock steps explored
TickMs == 1000 * 1            \* granularity of Date.now() in the model

MAX_HISTORY == 100
Validity == 2000              \* expiresAt: Date.now() + 2000
CooldownMs == 1000            \* config.cooldownMs default
MinProfitUsd == 10            \* config.minProfitUsd default
MaxGasPriceGwei == 100        \* config.maxGasPriceGwei default
EthPriceUsd == 3000           \* ethPriceUsd
AssumedGasPriceGwei == 30     \* "Assume 30 gwei"
BaseGas == 150000
GasPerHop == 80000

Chains == {42161, 8453}       \* ENABLED_CHAINS default
ProfitValues == {150, 151}    \* expectedProfit of delivered opportunities (10^14 wei)
\* the cycle found k-th by one detector run, as its ordered pool sequence
Cycles == << <<"PA", "PC", "PB">>, <<"PA", "PD", "PB">> >>
GasPricesGwei == {50, MaxGasPriceGwei, 150}   \* values returned by getGasPrice

ZeroHash == 0                 \* '0x' + '0'.repeat(64)
NoOpp == [id |-> 0, chain |-> 0, pools |-> <<>>, expectedProfit |-> 0, gasEstimate |-> 0,
          netProfitUsd |-> 0, expiresAt |-> 0]

\* USD amounts are counted in 1/1000 USD.
\* profitUsd = Number(expectedProfit) / 1e18 * ethPriceUsd
ProfitUsd(expectedProfit) == (expectedProfit * EthPriceUsd) \div 10
\* gasCostUsd = Number(gasEstimate * 30n * 10n ** 9n) / 1e18 * ethPriceUsd
GasCostUsd(gasEstimate) == ProfitUsd((gasEstimate * AssumedGasPriceGwei) \div 100000)

\* An opportunity as buildOpportunity returns it (netProfitUsd: 0)
DetectedOpp(id, chain, profit, pools) ==
    [id |-> id, chain |-> chain, pools |-> pools, expectedProfit |-> profit,
     gasEstimate |-> BaseGas + Len(pools) * GasPerHop, netProfitUsd |-> 0,
     expiresAt |-> now + Validity]

\* onOpportunity handler, valuation of one opportunity
Valued(o) ==
    [o EXCEPT !.netProfitUsd = ProfitUsd(o.expectedProfit) - GasCostUsd(o.gasEstimate)]

\* onOpportunity handler: opportunities at or above the threshold are pushed
RECURSIVE Enqueue(_, _)
Enqueue(queue, opps) ==
    IF opps = <<>> THEN queue
    ELSE LET o == Valued(Head(opps))
         IN  Enqueue(IF o.netProfitUsd >= MinProfitUsd * 1000 THEN Append(queue, o) ELSE queue,
                     Tail(opps))

\* (mutant) the dequeue checks without the expiry test
DroppedNoExpiry(o) == o.netProfitUsd < MinProfitUsd * 1000

\* processQueue: the dequeue checks (expired, below threshold)
Dropped(o) == now > o.expiresAt \/ o.netProfitUsd < MinProfitUsd * 1000

\* processQueue: shift and `continue` until an opportunity passes the checks
RECURSIVE SkipDropped(_)
SkipDropped(queue) ==
    IF queue = <<>> THEN <<>>
    ELSE IF Dropped(Head(queue)) THEN SkipDropped(Tail(queue))
    ELSE queue

\* ExecutionResult values
DryRunResult(o) == [success |-> TRUE, txHash |-> ZeroHash, profit |-> o.expectedProfit,
                    error |-> ""]
ErrorResult(kind) == [success |-> FALSE, txHash |-> ZeroHash, profit |-> 0, error |-> kind]
ReceiptResult(ok, hash, o) ==
    [success |-> ok, txHash |-> hash, profit |-> IF ok THEN o.expectedProfit ELSE 0,
     error |-> ""]

\* (mutant) tradeHistory.unshift(...) without the trim loop
UnshiftNoTrim(history, rec) == <<rec>> \o history

\* tradeHistory.unshift(...) followed by the trim loop
Unshift(history, rec) ==
    LET h == <<rec>> \o history
    IN  IF Len(h) > MAX_HISTORY THEN SubSeq(h, 1, MAX_HISTORY) ELSE h

\* processQueue after `await executor.execute(opportunity)`: counters, history,
\* then the cooldown timer is started
RecordResult(o, result) ==
    /\ state' = [state EXCEPT
                    !.totalTrades = @ + 1,
                    !.successfulTrades = IF result.success THEN @ + 1 ELSE @,
                    !.totalProfit = IF result.success THEN @ + result.profit ELSE @,
                    !.failedTrades = IF result.success THEN @ ELSE @ + 1]
    /\ tradeHistory' = Unshift(tradeHistory,
                               [id |-> o.id, chain |-> o.chain, txHash |-> result.txHash,
                                expected |-> o.expectedProfit,   \* outputAmount - inputAmount
                                profit |-> result.profit, success |-> result.success,
                                error |-> result.error])
    /\ pc' = "cooldown"
    /\ cooldownUntil' = now + CooldownMs
    /\ current' = NoOpp
    /\ currentTx' = ZeroHash

\* (mutant) execute without the dry-run branch
StartExecuteNoDryRun(o) ==
    /\ pc' = IF simulateBeforeExecute THEN "simulate" ELSE "gasPrice"
    /\ current' = o
    /\ UNCHANGED <<state, tradeHistory, cooldownUntil, currentTx>>

\* TradeExecutor.execute up to its first suspension
StartExecute(o) ==
    IF dryRun
      THEN RecordResult(o, DryRunResult(o))
      ELSE /\ pc' = IF simulateBeforeExecute THEN "simulate" ELSE "gasPrice"
           /\ current' = o
           /\ UNCHANGED <<state, tradeHistory, cooldownUntil, currentTx>>

\* what is noted of an opportunity when it is passed to executor.execute
Handed(o) == [id |-> o.id, expired |-> now > o.expiresAt,
              belowThreshold |-> o.netProfitUsd < MinProfitUsd * 1000]

\* (mutant) the loop reads the head of the queue without shifting it
RunLoopNoShift(queue) ==
    LET rest == IF state.isPaused THEN queue ELSE SkipDropped(queue)
        skipped == {queue[i].id : i \in 1..(Len(queue) - Len(rest))}
    IN  IF state.isPaused \/ rest = <<>>
          THEN /\ opportunityQueue' = rest
               /\ isProcessing' = FALSE
               /\ pc' = "idle"
               /\ dropped' = dropped \cup skipped
               /\ UNCHANGED <<state, tradeHistory, cooldownUntil, current, currentTx,
                              executed>>
          ELSE /\ opportunityQueue' = rest
               /\ isProcessing' = TRUE
               /\ dropped' = dropped \cup skipped
               /\ executed' = Append(executed, Handed(Head(rest)))
               /\ StartExecute(Head(rest))

\* (mutant) the loop releases the guard when the queue is drained, not when
\* it leaves on a pause
RunLoopKeepsGuard(queue) ==
    LET rest == IF state.isPaused THEN queue ELSE SkipDropped(queue)
        skipped == {queue[i].id : i \in 1..(Len(queue) - Len(rest))}
    IN  IF state.isPaused \/ rest = <<>>
          THEN /\ opportunityQueue' = rest
               /\ isProcessing' = state.isPaused
               /\ pc' = "idle"
               /\ dropped' = dropped \cup skipped
               /\ UNCHANGED <<state, tradeHistory, cooldownUntil, current, currentTx,
                              executed>>
          ELSE /\ opportunityQueue' = Tail(rest)
               /\ isProcessing' = TRUE
               /\ dropped' = dropped \cup skipped
               /\ executed' = Append(executed, Handed(Head(rest)))
               /\ StartExecute(Head(rest))

\* processQueue: the while loop from its test up to the next suspension,
\* with isProcessing already set
RunLoop(queue) ==
    LET rest == IF state.isPaused THEN queue ELSE SkipDropped(queue)
        skipped == {queue[i].id : i \in 1..(Len(queue) - Len(rest))}
    IN  IF state.isPaused \/ rest = <<>>
          THEN /\ opportunityQueue' = rest
               /\ isProcessing' = FALSE          \* finally
               /\ pc' = "idle"
               /\ dropped' = dropped \cup skipped
               /\ UNCHANGED <<state, tradeHistory, cooldownUntil, current, currentTx,
                              executed>>
          ELSE /\ opportunityQueue' = Tail(rest)
               /\ isProcessing' = TRUE
               /\ dropped' = dropped \cup skipped
               /\ executed' = Append(executed, Handed(Head(rest)))
               /\ StartExecute(Head(rest))

\* processQueue(executor, config) called with the queue holding `queue`
ProcessQueue(queue) ==
    IF isProcessing \/ state.isPaused \/ queue = <<>>
      THEN /\ opportunityQueue' = queue
           /\ UNCHANGED <<isProcessing, pc, state, tradeHistory, cooldownUntil, current,
                          currentTx, executed, dropped>>
      ELSE RunLoop(queue)

\* the opportunities of one callback: the k-th has profit profits[k] and
\* runs through the pools of the k-th cycle
BatchOf(id, chain, profits) ==
    [k \in 1..Len(profits) |->
        DetectedOpp(id + k - 1, chain, profits[k], Cycles[((k - 1) % Len(Cycles)) + 1])]

Batches == UNION {[1..n -> ProfitValues] : n \in 1..MaxBatch}

\* monitor.onOpportunity callback with the opportunities of one detector run
OnOpportunity(chain, profits) ==
    /\ nextId + Len(profits) - 1 <= MaxOpps
    /\ nextId' = nextId + Len(profits)
    /\ ProcessQueue(Enqueue(opportunityQueue, BatchOf(nextId, chain, profits)))
    /\ UNCHANGED <<txs, now, dryRun, simulateBeforeExecute, simReverted>>

\* (mutant) execute goes on to the gas gate whatever the simulation returned
SimulateDoneIgnored(ok) ==
    /\ pc = "simulate"
    /\ pc' = "gasPrice"
    /\ simReverted' = IF ok THEN simReverted ELSE simReverted \cup {current.id}
    /\ UNCHANGED <<state, tradeHistory, cooldownUntil, current, currentTx, opportunityQueue,
                   isProcessing, txs, now, nextId, dryRun, simulateBeforeExecute,
                   executed, dropped>>

\* execute: `await this.simulate(opportunity)` returns
SimulateDone(ok) ==
    /\ pc = "simulate"
    /\ IF ok THEN /\ pc' = "gasPrice"
                  /\ UNCHANGED <<state, tradeHistory, cooldownUntil, current, currentTx>>
             ELSE RecordResult(current, ErrorResult("simulation"))
    /\ simReverted' = IF ok THEN simReverted ELSE simReverted \cup {current.id}
    /\ UNCHANGED <<opportunityQueue, isProcessing, txs, now, nextId, dryRun,
                   simulateBeforeExecute, executed, dropped>>

\* (mutant) the gas gate refusing a gas price equal to the ceiling
GasPriceReadAtCeiling(ok, gasPriceGwei) ==
    /\ pc = "gasPrice"
    /\ IF ~ok THEN RecordResult(current, ErrorResult("network"))
       ELSE IF gasPriceGwei >= MaxGasPriceGwei
         THEN RecordResult(current, ErrorResult("gasPrice"))
       ELSE /\ pc' = "send"
            /\ UNCHANGED <<state, tradeHistory, cooldownUntil, current, currentTx>>
    /\ UNCHANGED <<opportunityQueue, isProcessing, txs, now, nextId, dryRun,
                   simulateBeforeExecute, simReverted, executed, dropped>>

\* execute: `await publicClient.getGasPrice()` returns gasPrice, or throws
GasPriceRead(ok, gasPriceGwei) ==
    /\ pc = "gasPrice"
    /\ IF ~ok THEN RecordResult(current, ErrorResult("network"))
       ELSE IF gasPriceGwei > MaxGasPriceGwei
         THEN RecordResult(current, ErrorResult("gasPrice"))
       ELSE /\ pc' = "send"
            /\ UNCHANGED <<state, tradeHistory, cooldownUntil, current, currentTx>>
    /\ UNCHANGED <<opportunityQueue, isProcessing, txs, now, nextId, dryRun,
                   simulateBeforeExecute, simReverted, executed, dropped>>

\* execute: executeStandard / executeViaFlashbots returns the hash of the
\* transaction it sent, or one of its calls throws before anything is sent
SendTransaction(ok) ==
    /\ pc = "send"
    /\ IF ok
         THEN LET hash == Cardinality(txs) + 1
              IN  /\ txs' = txs \cup {[hash |-> hash, opp |-> current.id,
                                        chain |-> current.chain, status |-> "pending"]}
                  /\ currentTx' = hash
                  /\ pc' = "receipt"
                  /\ UNCHANGED <<state, tradeHistory, cooldownUntil, current>>
         ELSE /\ RecordResult(current, ErrorResult("submit"))
              /\ UNCHANGED txs
    /\ UNCHANGED <<opportunityQueue, isProcessing, now, nextId, dryRun,
                   simulateBeforeExecute, simReverted, executed, dropped>>

Mined(hash, status) ==
    {IF t.hash = hash THEN [t EXCEPT !.status = status] ELSE t : t \in txs}

\* (mutant) a reverted transaction sends the executor back to the submit step
WaitReceiptRetry(outcome) ==
    /\ pc = "receipt"
    /\ IF outcome = "throws"
         THEN /\ RecordResult(current, ErrorResult("receipt"))
              /\ UNCHANGED txs
         ELSE IF outcome = "reverted"
         THEN /\ pc' = "send"
              /\ txs' = Mined(currentTx, outcome)
              /\ UNCHANGED <<state, tradeHistory, cooldownUntil, current, currentTx>>
         ELSE /\ RecordResult(current, ReceiptResult(TRUE, currentTx, current))
              /\ txs' = Mined(currentTx, outcome)
    /\ UNCHANGED <<opportunityQueue, isProcessing, now, nextId, dryRun,
                   simulateBeforeExecute, simReverted, executed, dropped>>

\* execute: `await publicClient.waitForTransactionReceipt(...)` returns the
\* receipt of the mined transaction ("success" or "reverted"), or throws
\* (timeout, transport error) while the transaction is still unconfirmed
WaitReceipt(outcome) ==
    /\ pc = "receipt"
    /\ IF outcome = "throws"
         THEN /\ RecordResult(current, ErrorResult("receipt"))
              /\ UNCHANGED txs
         ELSE /\ RecordResult(current, ReceiptResult(outcome = "success", currentTx, current))
              /\ txs' = Mined(currentTx, outcome)
    /\ UNCHANGED <<opportunityQueue, isProcessing, now, nextId, dryRun,
                   simulateBeforeExecute, simReverted, executed, dropped>>

\* the chain includes a transaction the bot no longer waits for
ChainConfirms(hash, outcome) ==
    /\ \E t \in txs : t.hash = hash /\ t.status = "pending"
    /\ hash # currentTx
    /\ txs' = Mined(hash, outcome)
    /\ UNCHANGED <<opportunityQueue, isProcessing, pc, state, tradeHistory, cooldownUntil,
                   current, currentTx, now, nextId, dryRun, simulateBeforeExecute, simReverted,
                   executed, dropped>>

\* processQueue: the cooldown timer fires and the loop test is evaluated again
CooldownDone ==
    /\ pc = "cooldown"
    /\ now >= cooldownUntil
    /\ RunLoop(opportunityQueue)
    /\ UNCHANGED <<txs, now, nextId, dryRun, simulateBeforeExecute, simReverted>>

\* POST /api/pause
ApiPause ==
    /\ state' = [state EXCEPT !.isPaused = TRUE]
    /\ UNCHANGED <<opportunityQueue, isProcessing, pc, tradeHistory, cooldownUntil,
                   current, currentTx, txs, now, nextId, dryRun, simulateBeforeExecute, simReverted,
                   executed, dropped>>

\* POST /api/resume
ApiResume ==
    /\ state' = [state EXCEPT !.isPaused = FALSE]
    /\ UNCHANGED <<opportunityQueue, isProcessing, pc, tradeHistory, cooldownUntil,
                   current, currentTx, txs, now, nextId, dryRun, simulateBeforeExecute, simReverted,
                   executed, dropped>>

\* Date.now() advances
Tick ==
    /\ now + TickMs <= MaxClockTicks * TickMs
    /\ now' = now + TickMs
    /\ UNCHANGED <<opportunityQueue, isProcessing, pc, state, tradeHistory, cooldownUntil,
                   current, currentTx, txs, nextId, dryRun, simulateBeforeExecute, simReverted,
                   executed, dropped>>

InitBotWith(d, s) ==
    /\ state = [isPaused |-> FALSE, totalProfit |-> 0, totalTrades |-> 0,
                successfulTrades |-> 0, failedTrades |-> 0]
    /\ tradeHistory = <<>>
    /\ opportunityQueue = <<>>
    /\ isProcessing = FALSE
    /\ pc = "idle"
    /\ current = NoOpp
    /\ currentTx = ZeroHash
    /\ cooldownUntil = 0
    /\ txs = {}
    /\ now = 0
    /\ nextId = 1
    /\ dryRun = d
    /\ simulateBeforeExecute = s
    /\ simReverted = {}
    /\ executed = <<>>
    /\ dropped = {}

InitBot == \E d \in BOOLEAN, s \in BOOLEAN : InitBotWith(d, s)

NextBot ==
    \/ \E c \in Chains, profits \in Batches :
          /\ OnOpportunity(c, profits)
          /\ UNCHANGED <<contractVars, mirrorVars, calcVars>>
    \/ \E ok \in BOOLEAN :
          /\ SimulateDone(ok)
          /\ UNCHANGED <<contractVars, mirrorVars, calcVars>>
    \/ \E ok \in BOOLEAN, g \in GasPricesGwei :
          /\ GasPriceRead(ok, g)
          /\ UNCHANGED <<contractVars, mirrorVars, calcVars>>
    \/ \E ok \in BOOLEAN :
          /\ SendTransaction(ok)
          /\ UNCHANGED <<contractVars, mirrorVars, calcVars>>
    \/ \E outcome \in {"success", "reverted", "throws"} :
          /\ WaitReceipt(outcome)
          /\ UNCHANGED <<contractVars, mirrorVars, calcVars>>
    \/ \E t \in txs, outcome \in {"success", "reverted"} :
          /\ ChainConfirms(t.hash, outcome)
          /\ UNCHANGED <<contractVars, mirrorVars, calcVars>>
    \/ /\ CooldownDone
       /\ UNCHANGED <<contractVars, mirrorVars, calcVars>>
    \/ /\ ApiPause
       /\ UNCHANGED <<contractVars, mirrorVars, calcVars>>
    \/ /\ ApiResume
       /\ UNCHANGED <<contractVars, mirrorVars, calcVars>>
    \/ /\ Tick
       /\ UNCHANGED <<contractVars, mirrorVars, calcVars>>

(***************************************************************************)
(*   Pool mirror and arbitrage detector (part_004, executor.ts:409-754)    *)
(***************************************************************************)

MaxSeq == 2                   \* Sync events per pool after discovery

Infinity == 1000000000        \* Number.POSITIVE_INFINITY of distances and weights
DivByZero == 0 - 1            \* RangeError: Division by zero (BigInt)
BpsDenominator == 10000
RefAmount == 10000            \* 10n ** 18n: reference input of the edge rate
InputAmount == 10000          \* 10n ** 18n: 1 WETH
MinProfitBps == 10            \* ArbitrageDetector constructor default
MaxHops == 3                  \* findDirectCycles(sourceToken, 3)
V2Fee == 30                   \* fee of a UniswapV2 subscription
MantissaBits == 14            \* fixed-point precision of the logarithm
FractionBits == 10            \* weights are counted in 2^-10 of log2

\* token addresses are numbered in increasing address order
Tokens == {1, 2, 3}
WETH == 2                     \* config.nativeToken.address
Pools == {"PA", "PB", "PC", "PD"}
Traded == {"PC", "PD"}        \* the pools that emit Sync events while monitored

\* PoolSubscription: token0 < token1 as the pair contracts report them
Sub(p) ==
    CASE p = "PA" -> [pool |-> p, token0 |-> 1, token1 |-> 2, fee |-> V2Fee]
      [] p = "PB" -> [pool |-> p, token0 |-> 2, token1 |-> 3, fee |-> V2Fee]
      [] p = "PC" -> [pool |-> p, token0 |-> 1, token1 |-> 3, fee |-> V2Fee]
      [] p = "PD" -> [pool |-> p, token0 |-> 1, token1 |-> 3, fee |-> V2Fee]

\* The chain's history per pool: the reserves read at discovery (sequence 0)
\* and the reserves of the Sync events with sequence 1, 2, ...
ChainLog(p) ==
    CASE p = "PA" -> << <<30000, 50000>> >>
      [] p = "PB" -> << <<20000, 40000>> >>
      [] p = "PC" -> << <<50000, 50000>>, <<40000, 40000>>, <<40000, 50000>> >>
      [] p = "PD" -> << <<40000, 10000>>, <<40000, 30000>>, <<0, 0>> >>

EventReserves(p, seq) == ChainLog(p)[(seq % Len(ChainLog(p))) + 1]

\* ---- integer helpers ----

\* floor(x * y / d) as <<quotient, remainder>> without forming x * y
RECURSIVE MulDivQR(_, _, _)
MulDivQR(x, y, d) ==
    IF y = 0 THEN <<0, 0>>
    ELSE LET h == MulDivQR(x, y \div 2, d)
             q2 == 2 * h[1] + ((2 * h[2]) \div d)
             r2 == (2 * h[2]) % d
         IN  IF y % 2 = 0 THEN <<q2, r2>>
             ELSE <<q2 + (x \div d) + ((r2 + (x % d)) \div d), (r2 + (x % d)) % d>>

RECURSIVE FloorLog2(_)
FloorLog2(n) == IF n < 2 THEN 0 ELSE 1 + FloorLog2(n \div 2)

RECURSIVE Pow2(_)
Pow2(k) == IF k = 0 THEN 1 ELSE 2 * Pow2(k - 1)

\* the fractional bits of log2 of a mantissa m in [1, 2), by repeated squaring
RECURSIVE Log2Frac(_, _, _)
Log2Frac(m, bits, acc) ==
    IF bits = 0 THEN acc
    ELSE LET sq == (m * m) \div Pow2(MantissaBits)
         IN  IF sq >= Pow2(MantissaBits + 1)
               THEN Log2Frac(sq \div 2, bits - 1, 2 * acc + 1)
               ELSE Log2Frac(sq, bits - 1, 2 * acc)

\* Math.log in fixed point: log2(n) in units of 2^-FractionBits, n >= 1
Log(n) ==
    LET k == FloorLog2(n)
        m == IF k <= MantissaBits THEN n * Pow2(MantissaBits - k)
                                  ELSE n \div Pow2(k - MantissaBits)
    IN  k * Pow2(FractionBits) + Log2Frac(m, FractionBits, 0)

\* ---- ArbitrageDetector ----

\* (mutant) the fee is added to the input instead of taken from it
AmountOutFeeAdded(reserveIn, reserveOut, amountIn, feeBps) ==
    LET feeMultiplier == BpsDenominator + feeBps
        amountInWithFee == amountIn * feeMultiplier
        denominator == reserveIn * BpsDenominator + amountInWithFee
    IN  IF denominator = 0 THEN DivByZero
        ELSE MulDivQR(amountInWithFee, reserveOut, denominator)[1]

\* calculateRate: the amountOut it returns; DivByZero when the division throws
AmountOut(reserveIn, reserveOut, amountIn, feeBps) ==
    LET feeMultiplier == BpsDenominator - feeBps
        amountInWithFee == amountIn * feeMultiplier
        denominator == reserveIn * BpsDenominator + amountInWithFee
    IN  IF denominator = 0 THEN DivByZero
        ELSE MulDivQR(amountInWithFee, reserveOut, denominator)[1]

\* calculateRate: rate = Number(amountOut) / Number(amountIn), kept as a fraction
CalculateRate(reserveIn, reserveOut, amountIn, feeBps) ==
    LET amountOut == AmountOut(reserveIn, reserveOut, amountIn, feeBps)
    IN  [amountOut |-> amountOut, rate |-> <<amountOut, amountIn>>]

\* (mutant) calculateWeight that gives a zero rate the weight 0
CalculateWeightZero(rate) ==
    IF rate[1] <= 0 THEN 0
    ELSE Log(rate[2]) - Log(rate[1])

\* calculateWeight: -Math.log(rate), Infinity for rate <= 0
CalculateWeight(rate) ==
    IF rate[1] <= 0 THEN Infinity
    ELSE Log(rate[2]) - Log(rate[1])

EmptyGraph == [vertices |-> {}, keys |-> <<>>, edges |-> [t \in Tokens |-> <<>>]]

\* edges.splice(existingIndex, 1) for the first edge of the same (to, pool)
RECURSIVE RemoveFirst(_, _)
RemoveFirst(edges, edge) ==
    IF edges = <<>> THEN <<>>
    ELSE IF Head(edges).to = edge.to /\ Head(edges).pool = edge.pool THEN Tail(edges)
    ELSE <<Head(edges)>> \o RemoveFirst(Tail(edges), edge)

\* (mutant) addEdge that pushes without removing the existing edge
AddEdgeNoReplace(g, edge) ==
    [vertices |-> g.vertices \cup {edge.from, edge.to},
     keys |-> IF \E i \in 1..Len(g.keys) : g.keys[i] = edge.from
                THEN g.keys ELSE Append(g.keys, edge.from),
     edges |-> [g.edges EXCEPT ![edge.from] = Append(@, edge)]]

\* addEdge
AddEdge(g, edge) ==
    [vertices |-> g.vertices \cup {edge.from, edge.to},
     keys |-> IF \E i \in 1..Len(g.keys) : g.keys[i] = edge.from
                THEN g.keys ELSE Append(g.keys, edge.from),
     edges |-> [g.edges EXCEPT ![edge.from] = Append(RemoveFirst(@, edge), edge)]]

IsInf(d) == d >= Infinity
Plus(a, b) == IF IsInf(a) \/ IsInf(b) THEN Infinity ELSE a + b
Less(a, b) == ~IsInf(a) /\ (IsInf(b) \/ a < b)

NoEdge == [from |-> 0, to |-> 0, pool |-> "", weight |-> 0, reserve0 |-> 0,
           reserve1 |-> 0, fee |-> 0]

\* relaxation of the edges of one source vertex, distFrom read before the loop
RECURSIVE RelaxEdges(_, _, _)
RelaxEdges(edges, distFrom, st) ==
    IF edges = <<>> THEN st
    ELSE LET edge == Head(edges)
             newDist == Plus(distFrom, edge.weight)
         IN  RelaxEdges(Tail(edges), distFrom,
                IF edge.to \in DOMAIN st.distance /\ Less(newDist, st.distance[edge.to])
                  THEN [distance |-> [st.distance EXCEPT ![edge.to] = newDist],
                        predecessor |-> [st.predecessor EXCEPT ![edge.to] = edge],
                        updated |-> TRUE]
                  ELSE st)

\* one pass over this.graph.edges in Map order
RECURSIVE RelaxPass(_, _, _)
RelaxPass(g, keys, st) ==
    IF keys = <<>> THEN st
    ELSE LET from == Head(keys)
         IN  RelaxPass(g, Tail(keys),
                IF from \notin DOMAIN st.distance \/ IsInf(st.distance[from]) THEN st
                ELSE RelaxEdges(g.edges[from], st.distance[from], st))

\* "Relax edges V-1 times", leaving early when a pass updates nothing
RECURSIVE Relax(_, _, _)
Relax(g, passes, st) ==
    IF passes = 0 THEN st
    ELSE LET next == RelaxPass(g, g.keys, [st EXCEPT !.updated = FALSE])
         IN  IF next.updated THEN Relax(g, passes - 1, next) ELSE next

AppendNew(s, x) == IF \E i \in 1..Len(s) : s[i] = x THEN s ELSE Append(s, x)

\* the extra pass: vertices whose incoming edge still improves, in Set order
RECURSIVE FlagEdges(_, _, _, _)
FlagEdges(edges, distFrom, distance, flagged) ==
    IF edges = <<>> THEN flagged
    ELSE LET edge == Head(edges)
         IN  FlagEdges(Tail(edges), distFrom, distance,
                IF edge.to \in DOMAIN distance
                   /\ Less(Plus(distFrom, edge.weight), distance[edge.to])
                  THEN AppendNew(flagged, edge.to) ELSE flagged)

RECURSIVE NegativeCycleVertices(_, _, _, _)
NegativeCycleVertices(g, keys, distance, flagged) ==
    IF keys = <<>> THEN flagged
    ELSE LET from == Head(keys)
         IN  NegativeCycleVertices(g, Tail(keys), distance,
                IF from \notin DOMAIN distance \/ IsInf(distance[from]) THEN flagged
                ELSE FlagEdges(g.edges[from], distance[from], distance, flagged))

\* extractCycle: the while loop; returns <<cycle, current>>
RECURSIVE TraceBack(_, _, _, _)
TraceBack(cur, predecessor, visited, cycle) ==
    IF cur \in visited THEN <<cycle, cur>>
    ELSE LET edge == IF cur \in DOMAIN predecessor THEN predecessor[cur] ELSE NoEdge
         IN  IF edge = NoEdge THEN <<cycle, cur>>
             ELSE TraceBack(edge.from, predecessor, visited \cup {cur}, <<edge>> \o cycle)

\* extractCycle
ExtractCycle(start, predecessor) ==
    LET traced == TraceBack(start, predecessor, {}, <<>>)
        cycle == traced[1]
        cycleStart == traced[2]
        hits == {i \in 1..Len(cycle) : cycle[i].from = cycleStart}
        startIndex == IF hits = {} THEN 0 ELSE CHOOSE i \in hits : \A j \in hits : i <= j
    IN  IF startIndex > 0 THEN SubSeq(cycle, startIndex, Len(cycle)) ELSE cycle

EdgeKey(edge) == <<edge.from, edge.to, edge.pool>>

InPath(path, edge) == \E i \in 1..Len(path) : EdgeKey(path[i]) = EdgeKey(edge)

\* (mutant) dfs that closes a cycle as soon as the path has one edge
RECURSIVE DfsTwoHop(_, _, _, _)
DfsTwoHop(g, source, edges, path) ==
    IF edges = <<>> THEN <<>>
    ELSE LET edge == Head(edges)
             found ==
                IF edge.to = source /\ Len(path) >= 1
                  THEN << Append(path, edge) >>
                ELSE IF ~InPath(path, edge) /\ Len(path) < MaxHops
                  THEN DfsTwoHop(g, source, g.edges[edge.to], Append(path, edge))
                ELSE <<>>
         IN  found \o DfsTwoHop(g, source, Tail(edges), path)

\* findDirectCycles: dfs(current, path, visited); visited holds the keys of path
RECURSIVE Dfs(_, _, _, _)
Dfs(g, source, edges, path) ==
    IF edges = <<>> THEN <<>>
    ELSE LET edge == Head(edges)
             found ==
                IF edge.to = source /\ Len(path) >= 2
                  THEN << Append(path, edge) >>
                ELSE IF ~InPath(path, edge) /\ Len(path) < MaxHops
                  THEN Dfs(g, source, g.edges[edge.to], Append(path, edge))
                ELSE <<>>
         IN  found \o Dfs(g, source, Tail(edges), path)

FindDirectCycles(g, source) == Dfs(g, source, g.edges[source], <<>>)

\* the swap steps of buildOpportunity, threading currentAmount through the cycle
RECURSIVE SwapSteps(_, _)
SwapSteps(cycle, currentAmount) ==
    IF cycle = <<>> THEN <<>>
    ELSE LET edge == Head(cycle)
             isToken0ToToken1 == edge.from < edge.to
             reserveIn == IF isToken0ToToken1 THEN edge.reserve0 ELSE edge.reserve1
             reserveOut == IF isToken0ToToken1 THEN edge.reserve1 ELSE edge.reserve0
             amountOut == AmountOut(reserveIn, reserveOut, currentAmount, edge.fee)
             step == [tokenIn |-> edge.from, tokenOut |-> edge.to,
                      amountIn |-> currentAmount, expectedAmountOut |-> amountOut,
                      pool |-> edge.pool]
         IN  IF amountOut = DivByZero THEN <<step>>
             ELSE <<step>> \o SwapSteps(Tail(cycle), amountOut)

\* buildOpportunity (cycle non-empty); threw when a calculateRate divides by zero
BuildOpportunity(cycle, inputAmount) ==
    LET swapSteps == SwapSteps(cycle, inputAmount)
        currentAmount == swapSteps[Len(swapSteps)].expectedAmountOut
    IN  [threw |-> currentAmount = DivByZero,
         opportunity |->
            [path |-> swapSteps,
             inputToken |-> cycle[1].from,
             inputAmount |-> inputAmount,
             expectedOutput |-> currentAmount,
             expectedProfit |-> currentAmount - inputAmount,
             gasEstimate |-> BaseGas + Len(cycle) * GasPerHop]]

PoolsOf(o) == [i \in 1..Len(o.path) |-> o.path[i].pool]

\* opportunities.sort((a, b) => Number(b.expectedProfit - a.expectedProfit)), stable
RECURSIVE InsertByProfit(_, _)
InsertByProfit(sorted, o) ==
    IF sorted = <<>> THEN <<o>>
    ELSE IF Head(sorted).expectedProfit >= o.expectedProfit
      THEN <<Head(sorted)>> \o InsertByProfit(Tail(sorted), o)
      ELSE <<o>> \o sorted

RECURSIVE SortByProfit(_)
SortByProfit(opps) ==
    IF opps = <<>> THEN <<>>
    ELSE InsertByProfit(SortByProfit(SubSeq(opps, 1, Len(opps) - 1)), opps[Len(opps)])

\* "Extract cycles and calculate profits": the traced cycles that are built
RECURSIVE TracedCycles(_, _, _)
TracedCycles(flagged, predecessor, source) ==
    IF flagged = <<>> THEN <<>>
    ELSE LET cycle == ExtractCycle(Head(flagged), predecessor)
         IN  (IF Len(cycle) > 0 /\ cycle[1].from = source THEN <<cycle>> ELSE <<>>)
             \o TracedCycles(Tail(flagged), predecessor, source)

\* (mutant) the loops pushing every profitable candidate, duplicates included
RECURSIVE CollectNoDedup(_, _, _, _)
CollectNoDedup(cycles, inputAmount, dedup, acc) ==
    IF cycles = <<>> \/ acc.threw THEN acc
    ELSE LET built == BuildOpportunity(Head(cycles), inputAmount)
             o == built.opportunity
         IN  CollectNoDedup(Tail(cycles), inputAmount, dedup,
                IF built.threw THEN [threw |-> TRUE, opportunities |-> <<>>]
                ELSE IF o.expectedProfit > 0
                  THEN [acc EXCEPT !.opportunities = Append(@, o)]
                  ELSE acc)

\* the two loops that build the candidates and push the profitable ones; the
\* duplicate test applies to the direct cycles only; a throw ends the run
RECURSIVE Collect(_, _, _, _)
Collect(cycles, inputAmount, dedup, acc) ==
    IF cycles = <<>> \/ acc.threw THEN acc
    ELSE LET built == BuildOpportunity(Head(cycles), inputAmount)
             o == built.opportunity
             isDuplicate == \E i \in 1..Len(acc.opportunities) :
                               PoolsOf(acc.opportunities[i]) = PoolsOf(o)
         IN  Collect(Tail(cycles), inputAmount, dedup,
                IF built.threw THEN [threw |-> TRUE, opportunities |-> <<>>]
                ELSE IF o.expectedProfit > 0 /\ ~(dedup /\ isDuplicate)
                  THEN [acc EXCEPT !.opportunities = Append(@, o)]
                  ELSE acc)

\* the state of distance and predecessor after the relaxation passes
BellmanFord(g, sourceToken) ==
    Relax(g, Cardinality(g.vertices) - 1,
          [distance |-> [v \in g.vertices \cup {sourceToken} |->
                            IF v = sourceToken THEN 0 ELSE Infinity],
           predecessor |-> [v \in g.vertices |-> NoEdge],
           updated |-> FALSE])

\* (mutant) findArbitrageOpportunities that reads vertices[0] before testing n
FindArbitrageOpportunitiesNoGuard(g, sourceToken, inputAmount) ==
    IF Cardinality(g.vertices) = 0 THEN [threw |-> TRUE, opportunities |-> <<>>]
    ELSE LET st == BellmanFord(g, sourceToken)
             flagged == NegativeCycleVertices(g, g.keys, st.distance, <<>>)
             traced == Collect(TracedCycles(flagged, st.predecessor, sourceToken),
                               inputAmount, FALSE,
                               [threw |-> FALSE, opportunities |-> <<>>])
             all == Collect(FindDirectCycles(g, sourceToken), inputAmount, TRUE, traced)
         IN  [threw |-> all.threw, opportunities |-> SortByProfit(all.opportunities)]

\* findArbitrageOpportunities
FindArbitrageOpportunities(g, sourceToken, inputAmount) ==
    IF Cardinality(g.vertices) = 0 THEN [threw |-> FALSE, opportunities |-> <<>>]
    ELSE LET st == BellmanFord(g, sourceToken)
             flagged == NegativeCycleVertices(g, g.keys, st.distance, <<>>)
             traced == Collect(TracedCycles(flagged, st.predecessor, sourceToken),
                               inputAmount, FALSE,
                               [threw |-> FALSE, opportunities |-> <<>>])
             all == Collect(FindDirectCycles(g, sourceToken), inputAmount, TRUE, traced)
         IN  [threw |-> all.threw, opportunities |-> SortByProfit(all.opportunities)]

\* ---- PriceMonitor ----

NoReserves == [pool |-> "", token0 |-> 0, token1 |-> 0, reserve0 |-> 0,
               reserve1 |-> 0, fee |-> 0]
NoDelivery == [pool |-> "", seq |-> 0, repeated |-> FALSE, detectorRan |-> FALSE,
               threw |-> FALSE]

\* the two edges updateReserves derives from a pool's reserves
ForwardEdge(sub, reserve0, reserve1) ==
    [from |-> sub.token0, to |-> sub.token1, pool |-> sub.pool,
     weight |-> CalculateWeight(CalculateRate(reserve0, reserve1, RefAmount, sub.fee).rate),
     reserve0 |-> reserve0, reserve1 |-> reserve1, fee |-> sub.fee]

ReverseEdge(sub, reserve0, reserve1) ==
    [from |-> sub.token1, to |-> sub.token0, pool |-> sub.pool,
     weight |-> CalculateWeight(CalculateRate(reserve1, reserve0, RefAmount, sub.fee).rate),
     reserve0 |-> reserve1, reserve1 |-> reserve0, fee |-> sub.fee]

Snapshot(sub, reserve0, reserve1) ==
    [pool |-> sub.pool, token0 |-> sub.token0, token1 |-> sub.token1,
     reserve0 |-> reserve0, reserve1 |-> reserve1, fee |-> sub.fee]

\* (mutant) updateReserves that stops after the forward edge
UpdateReservesForwardOnly(sub, reserve0, reserve1) ==
    /\ reserves' = [reserves EXCEPT ![sub.pool] = Snapshot(sub, reserve0, reserve1)]
    /\ graph' = AddEdge(graph, ForwardEdge(sub, reserve0, reserve1))

\* updateReserves
UpdateReserves(sub, reserve0, reserve1) ==
    /\ reserves' = [reserves EXCEPT ![sub.pool] = Snapshot(sub, reserve0, reserve1)]
    /\ graph' = AddEdge(AddEdge(graph, ForwardEdge(sub, reserve0, reserve1)),
                        ReverseEdge(sub, reserve0, reserve1))

Subscribed(p) == \E i \in 1..Len(subscriptions) : subscriptions[i] = p

\* discoverV2Pools, one pair that exists: subscribe and store the initial reserves
DiscoverPool(p) ==
    /\ ~monitoring
    /\ ~Subscribed(p)
    /\ subscriptions' = Append(subscriptions, p)
    /\ UpdateReserves(Sub(p), EventReserves(p, 0)[1], EventReserves(p, 0)[2])
    /\ highSeq' = [highSeq EXCEPT ![p] = 0]
    /\ UNCHANGED <<monitoring, lastDelivery, emitted>>

\* startMonitoring: the Sync watchers of the discovered pools are installed
StartMonitoring ==
    /\ ~monitoring
    /\ monitoring' = TRUE
    /\ UNCHANGED <<subscriptions, reserves, graph, highSeq, lastDelivery, emitted>>

\* checkArbitrage after the update: the opportunities handed to the callback
CheckArbitrage(p, seq) ==
    LET found == FindArbitrageOpportunities(graph', WETH, InputAmount)
    IN  /\ emitted' = found.opportunities
        /\ lastDelivery' = [pool |-> p, seq |-> seq,
                            repeated |-> reserves'[p] = reserves[p],
                            detectorRan |-> TRUE, threw |-> found.threw]

\* the Sync onLogs handler for one log of pool p carrying sequence seq
OnLogs(p, seq) ==
    /\ monitoring
    /\ Subscribed(p)
    /\ UpdateReserves(Sub(p), EventReserves(p, seq)[1], EventReserves(p, seq)[2])
    /\ CheckArbitrage(p, seq)
    /\ highSeq' = [highSeq EXCEPT ![p] = IF seq > @ THEN seq ELSE @]
    /\ UNCHANGED <<subscriptions, monitoring>>

InitMirror ==
    /\ subscriptions = <<>>
    /\ monitoring = FALSE
    /\ reserves = [p \in Pools |-> NoReserves]
    /\ graph = EmptyGraph
    /\ highSeq = [p \in Pools |-> 0]
    /\ lastDelivery = NoDelivery
    /\ emitted = <<>>

NextMirror ==
    \/ \E p \in Pools :
          /\ DiscoverPool(p)
          /\ UNCHANGED <<contractVars, botVars, calcVars>>
    \/ /\ StartMonitoring
       /\ UNCHANGED <<contractVars, botVars, calcVars>>
    \/ \E p \in Traded, seq \in 1..MaxSeq :
          /\ OnLogs(p, seq)
          /\ UNCHANGED <<contractVars, botVars, calcVars>>

(***************************************************************************)
(*   Single calls of updateReserves, findArbitrageOpportunities,           *)
(*   buildArbitrageParams and the history update on arguments drawn from   *)
(*   small sets                                                            *)
(***************************************************************************)

ReserveValues == {0, 1, 2, 100, 9999, 10000, 10001, 50000, 90000}
FeeValues == {0, 1, 30, 5000, 9999}
ProfitInputs == {0, 1, 99, 100, 101, 10000, 12345}
SlippageValues == {0, 1, 50, 99, 100, 101, 5000, 10000}
AmountInputs == {0, 1, InputAmount}
\* lengths of the trade history before a record is added
HistoryLengths == {0, 1, MAX_HISTORY - 1, MAX_HISTORY}

\* the history record of the id-th executed opportunity
TradeOf(id) == [id |-> id, chain |-> 42161, txHash |-> ZeroHash, expected |-> 150,
                profit |-> 150, success |-> TRUE, error |-> ""]

\* the history after n executed opportunities (n <= MAX_HISTORY), newest first
PastTrades(n) == [i \in 1..n |-> TradeOf(n - i + 1)]

RECURSIVE Power(_, _)
Power(b, e) == IF e = 0 THEN 1 ELSE b * Power(b, e - 1)

\* calculateConfidence for a cycle of `hops` edges of which `thin` run through
\* a pool with less than 1 ETH on one side; the result is counted in units
\* of 1 / (100 * 100^(MaxHops - 1) * 10), which holds every factor exactly
CalculateConfidence(hops, thin, profit, input) ==
    LET profitBps == (profit * BpsDenominator) \div input
        capped == IF profitBps < 100 THEN profitBps ELSE 100
    IN  capped * Power(95, hops - 2) * Power(100, MaxHops + 1 - hops)
               * Power(8, thin) * Power(10, 1 - thin)

CycleLengths == {MaxHops, MaxHops + 1}    \* edges of a cycle the enumeration returns
ThinEdges == 0..1                          \* low-liquidity edges of a cycle
Timestamps == 0..1                         \* Date.now() while one list is built

\* an opportunity as buildOpportunity stamps it, reduced to the fields the
\* ordering of the list can depend on
Stamped(profit, hops, thin, timestamp) ==
    [expectedProfit |-> profit,
     confidence |-> CalculateConfidence(hops, thin, profit, InputAmount),
     timestamp |-> timestamp]

StampedOpps ==
    {Stamped(e, h, k, t) : e \in ProfitValues, h \in CycleLengths, k \in ThinEdges,
                           t \in Timestamps}

\* the lists handed to the sort: built one opportunity after the other, so
\* their timestamps do not decrease along the list
BuiltLists ==
    {l \in UNION {[1..n -> StampedOpps] : n \in 1..MaxBatch} :
        \A i \in 1..(Len(l) - 1) : l[i].timestamp <= l[i + 1].timestamp}

NoCall == [op |-> "none"]

CalcInputs ==
    {[op |-> "updateReserves", reserve0 |-> a, reserve1 |-> b, fee |-> f] :
        a \in ReserveValues, b \in ReserveValues, f \in FeeValues}
    \cup {[op |-> "findArbitrageOpportunities", sourceToken |-> t, inputAmount |-> a] :
        t \in Tokens, a \in AmountInputs}
    \cup {[op |-> "buildArbitrageParams", expectedProfit |-> e, maxSlippageBps |-> b] :
        e \in ProfitInputs, b \in SlippageValues}
    \cup {[op |-> "unshift", history |-> PastTrades(n), rec |-> TradeOf(n + 1)] :
        n \in HistoryLengths}
    \cup {[op |-> "sort", opportunities |-> l] : l \in BuiltLists}

\* BigInt division truncates toward zero
TruncDiv(a, b) == IF a >= 0 THEN a \div b ELSE 0 - ((0 - a) \div b)

\* buildArbitrageParams: the minProfit field
BuildArbitrageParams(expectedProfit, maxSlippageBps) ==
    [minProfit |-> TruncDiv(expectedProfit * (100 - maxSlippageBps), 100)]

\* updateReserves(chainId, sub, reserve0, reserve1) for a pool of tokens 1 and WETH
CallUpdateReserves ==
    /\ calcInput.op = "updateReserves"
    /\ calcOutput = NoCall
    /\ UpdateReserves([pool |-> "PA", token0 |-> 1, token1 |-> WETH, fee |-> calcInput.fee],
                      calcInput.reserve0, calcInput.reserve1)
    /\ calcOutput' = [op |-> "updateReserves"]
    /\ UNCHANGED <<subscriptions, monitoring, highSeq, lastDelivery, emitted, calcInput>>

\* findArbitrageOpportunities(sourceToken, inputAmount) on the graph as constructed
CallFindArbitrageOpportunities ==
    /\ calcInput.op = "findArbitrageOpportunities"
    /\ calcOutput = NoCall
    /\ calcOutput' = [op |-> "findArbitrageOpportunities",
                      result |-> FindArbitrageOpportunities(graph, calcInput.sourceToken,
                                                            calcInput.inputAmount)]
    /\ UNCHANGED <<mirrorVars, calcInput>>

\* buildArbitrageParams(opportunity) under config.maxSlippageBps
CallBuildArbitrageParams ==
    /\ calcInput.op = "buildArbitrageParams"
    /\ calcOutput = NoCall
    /\ calcOutput' = [op |-> "buildArbitrageParams",
                      params |-> BuildArbitrageParams(calcInput.expectedProfit,
                                                      calcInput.maxSlippageBps)]
    /\ UNCHANGED <<mirrorVars, calcInput>>

\* processQueue: the executed opportunity's record is added to the history
CallUnshift ==
    /\ calcInput.op = "unshift"
    /\ calcOutput = NoCall
    /\ calcOutput' = [op |-> "unshift",
                      history |-> Unshift(calcInput.history, calcInput.rec)]
    /\ UNCHANGED <<mirrorVars, calcInput>>

\* findArbitrageOpportunities: the list is sorted before it is returned
CallSort ==
    /\ calcInput.op = "sort"
    /\ calcOutput = NoCall
    /\ calcOutput' = [op |-> "sort", opportunities |-> SortByProfit(calcInput.opportunities)]
    /\ UNCHANGED <<mirrorVars, calcInput>>

InitCalc ==
    /\ calcInput = NoCall
    /\ calcOutput = NoCall

NextCalc ==
    \/ /\ CallUpdateReserves
       /\ UNCHANGED <<contractVars, botVars>>
    \/ /\ CallFindArbitrageOpportunities
       /\ UNCHANGED <<contractVars, botVars>>
    \/ /\ CallBuildArbitrageParams
       /\ UNCHANGED <<contractVars, botVars>>
    \/ /\ CallUnshift
       /\ UNCHANGED <<contractVars, botVars>>
    \/ /\ CallSort
       /\ UNCHANGED <<contractVars, botVars>>

(***************************************************************************)
(*   The executor against the deployed contract: every transaction the     *)
(*   bot sends is a call of executeArbitrage (executor.ts:198-215)         *)
(***************************************************************************)

\* what the contract would answer to the bot's call right now: simulate
\* (eth_call) and estimateGas fail when executeArbitrage reverts
CallWouldRevert == paused \/ Routers \cap approvedRouters = {}

\* execute: the simulation is an eth_call against the contract
SimulateCall(ok) ==
    /\ (ok => ~CallWouldRevert)
    /\ SimulateDone(ok)
    /\ UNCHANGED <<contractVars, mirrorVars, calcVars>>

\* executeStandard: estimateGas against the contract, then sendTransaction
SubmitCall(ok) ==
    /\ (ok => ~CallWouldRevert)
    /\ SendTransaction(ok)
    /\ UNCHANGED <<contractVars, mirrorVars, calcVars>>

\* the awaited transaction is included: the contract runs executeArbitrage
\* and the receipt carries its status
MinedAwaited(router, flashAmount, minProfit, balanceAfter) ==
    /\ pc = "receipt"
    /\ ExecuteArbitrage(Owner, router, flashAmount, minProfit, balanceAfter)
    /\ WaitReceipt(IF lastCall'.reverted THEN "reverted" ELSE "success")
    /\ UNCHANGED <<mirrorVars, calcVars>>

\* a transaction the bot stopped waiting for is included
MinedLate(hash, router, flashAmount, minProfit, balanceAfter) ==
    /\ \E t \in txs : t.hash = hash /\ t.status = "pending"
    /\ ExecuteArbitrage(Owner, router, flashAmount, minProfit, balanceAfter)
    /\ ChainConfirms(hash, IF lastCall'.reverted THEN "reverted" ELSE "success")
    /\ UNCHANGED <<mirrorVars, calcVars>>

\* the chain whose contract the transactions go to
DeployedChain == {c \in Chains : c = 42161}

NextPipeline ==
    \/ \E c \in DeployedChain, profits \in Batches :
          /\ OnOpportunity(c, profits)
          /\ UNCHANGED <<contractVars, mirrorVars, calcVars>>
    \/ \E ok \in BOOLEAN : SimulateCall(ok)
    \/ \E g \in GasPricesGwei :
          /\ GasPriceRead(TRUE, g)
          /\ UNCHANGED <<contractVars, mirrorVars, calcVars>>
    \/ \E ok \in BOOLEAN : SubmitCall(ok)
    \/ \E r \in Routers, b \in 0..(MaxAmount + 1) :
          /\ b <= balance + 1
          /\ MinedAwaited(r, 1, 0, b)
    \/ /\ WaitReceipt("throws")
       /\ UNCHANGED <<contractVars, mirrorVars, calcVars>>
    \/ \E t \in txs, r \in Routers, b \in 0..(MaxAmount + 1) :
          /\ b <= balance + 1
          /\ MinedLate(t.hash, r, 1, 0, b)
    \/ /\ CooldownDone
       /\ UNCHANGED <<contractVars, mirrorVars, calcVars>>
    \/ /\ ApiPause
       /\ UNCHANGED <<contractVars, mirrorVars, calcVars>>
    \/ /\ ApiResume
       /\ UNCHANGED <<contractVars, mirrorVars, calcVars>>
    \/ /\ Tick
       /\ UNCHANGED <<contractVars, mirrorVars, calcVars>>
    \/ \E r \in Routers :
          /\ SetRouterApproval(Owner, r, TRUE)
          /\ UNCHANGED <<botVars, mirrorVars, calcVars>>
    \/ \E a \in 1..MaxAmount :
          /\ Deposit(a)
          /\ UNCHANGED <<botVars, mirrorVars, calcVars>>

(***************************************************************************)
(*   The contract's two flashloan entry points with the arguments of each  *)
(*   call kept beside its outcome (part_000:105-191)                       *)
(***************************************************************************)

\* receiveFlashLoan(tokens, amounts, feeAmounts, userData) sent by `sender`
CallReceiveFlashLoan(sender, router, amount, feeAmount, minProfit, balanceAfter) ==
    /\ ReceiveFlashLoan(sender, router, amount, feeAmount, minProfit, balanceAfter)
    /\ calcInput' = [op |-> "receiveFlashLoan", sender |-> sender, amount |-> amount,
                     feeAmount |-> feeAmount, minProfit |-> minProfit,
                     balanceAfter |-> balanceAfter]
    /\ UNCHANGED <<botVars, mirrorVars, calcOutput>>

\* executeArbitrage(params) sent by `sender`; the vault lends without fee
CallExecuteArbitrage(sender, router, flashAmount, minProfit, balanceAfter) ==
    /\ ExecuteArbitrage(sender, router, flashAmount, minProfit, balanceAfter)
    /\ calcInput' = [op |-> "executeArbitrage", sender |-> sender, amount |-> flashAmount,
                     feeAmount |-> 0, minProfit |-> minProfit,
                     balanceAfter |-> balanceAfter]
    /\ UNCHANGED <<botVars, mirrorVars, calcOutput>>

NextFlashLoan ==
    \/ \E s \in Senders, r \in Routers, a \in 1..MaxAmount, f \in Fees, m \in 0..1,
          b \in 0..(2 * MaxAmount + 1) :
            /\ b <= balance + a + 1
            /\ dailyLoss + balance <= MaxDailyLoss
            /\ CallReceiveFlashLoan(s, r, a, f, m, b)
    \/ \E s \in {Owner, Attacker}, r \in Routers, a \in 1..MaxAmount, m \in 0..1,
          b \in 0..(2 * MaxAmount + 1) :
            /\ b <= balance + a + 1
            /\ dailyLoss + balance <= MaxDailyLoss
            /\ CallExecuteArbitrage(s, r, a, m, b)
    \/ \E r \in Routers, ap \in BOOLEAN :
          /\ SetRouterApproval(Owner, r, ap)
          /\ calcInput' = NoCall
          /\ UNCHANGED <<botVars, mirrorVars, calcOutput>>
    \/ \E p \in BOOLEAN :
          /\ SetPaused(Owner, p)
          /\ calcInput' = NoCall
          /\ UNCHANGED <<botVars, mirrorVars, calcOutput>>
    \/ \E a \in 1..MaxAmount :
          /\ Deposit(a)
          /\ calcInput' = NoCall
          /\ UNCHANGED <<botVars, mirrorVars, calcOutput>>

(***************************************************************************)
(*   The Sync watcher called with a batch of logs (part_004:328-351):      *)
(*   `for (const log of logs)` applies and checks each log in turn, and    *)
(*   an exception leaves the loop and the handler                          *)
(***************************************************************************)

MaxLogs == 3                  \* longest batch handed to onLogs

\* a log of the batch: its args decode to the reserves of event `seq`, or
\* reserve0 / reserve1 are undefined
LogSet == {[seq |-> s, decoded |-> TRUE] : s \in 1..MaxSeq}
          \cup {[seq |-> 0, decoded |-> FALSE]}

LogBatches == UNION {[1..n -> LogSet] : n \in 1..MaxLogs}

RECURSIVE Decodable(_)
Decodable(logs) ==
    IF logs = <<>> THEN <<>>
    ELSE (IF Head(logs).decoded THEN <<Head(logs).seq>> ELSE <<>>) \o Decodable(Tail(logs))

\* the body of the loop for one log of pool p: a log whose fields are
\* undefined is passed over, any other is applied by updateReserves and
\* followed by checkArbitrage
HandleLog(p, log, st) ==
    IF ~log.decoded THEN st
    ELSE LET seq == log.seq
             r == EventReserves(p, seq)
             reserves2 == [st.reserves EXCEPT ![p] = Snapshot(Sub(p), r[1], r[2])]
             graph2 == AddEdge(AddEdge(st.graph, ForwardEdge(Sub(p), r[1], r[2])),
                               ReverseEdge(Sub(p), r[1], r[2]))
         IN  CHOOSE next \in
                {[reserves |-> reserves2,
                  graph |-> graph2,
                  emitted |-> found.opportunities,
                  highSeq |-> IF seq > st.highSeq THEN seq ELSE st.highSeq,
                  lastDelivery |-> [pool |-> p, seq |-> seq,
                                    repeated |-> reserves2[p] = st.reserves[p],
                                    detectorRan |-> TRUE, threw |-> found.threw],
                  applied |-> st.applied + 1,
                  runs |-> st.runs + 1,
                  threw |-> found.threw] :
                 found \in {FindArbitrageOpportunities(graph2, WETH, InputAmount)}} : TRUE

\* `for (const log of logs)`: a throw of the detector ends the loop
RECURSIVE HandleLogs(_, _, _)
HandleLogs(p, logs, st) ==
    IF logs = <<>> \/ st.threw THEN st
    ELSE CHOOSE out \in {HandleLogs(p, Tail(logs), next) :
                            next \in {HandleLog(p, Head(logs), st)}} : TRUE

\* the Sync onLogs handler called with the batch `logs` of pool p
OnLogsBatch(p, logs) ==
    /\ monitoring
    /\ Subscribed(p)
    /\ \E out \in {HandleLogs(p, logs,
                        [reserves |-> reserves, graph |-> graph, emitted |-> emitted,
                         highSeq |-> highSeq[p], lastDelivery |-> lastDelivery,
                         applied |-> 0, runs |-> 0, threw |-> FALSE])} :
          /\ reserves' = out.reserves
          /\ graph' = out.graph
          /\ emitted' = out.emitted
          /\ highSeq' = [highSeq EXCEPT ![p] = out.highSeq]
          /\ lastDelivery' = out.lastDelivery
          /\ calcInput' = [op |-> "onLogs", pool |-> p, decodable |-> Decodable(logs)]
          /\ calcOutput' = [op |-> "onLogs", applied |-> out.applied, runs |-> out.runs,
                            threw |-> out.threw]
    /\ UNCHANGED <<subscriptions, monitoring>>

\* the pairs that exist on the chain whose watchers are followed
ListedPools == {"PA", "PB", "PD"}

NextWatcher ==
    \/ \E p \in ListedPools :
          /\ DiscoverPool(p)
          /\ UNCHANGED <<contractVars, botVars, calcVars>>
    \/ /\ StartMonitoring
       /\ UNCHANGED <<contractVars, botVars, calcVars>>
    \/ \E p \in Traded, logs \in LogBatches :
          /\ OnLogsBatch(p, logs)
          /\ UNCHANGED <<contractVars, botVars>>

(***************************************************************************)
(*                          Specifications                                 *)
(***************************************************************************)

\* each sub-system runs while the other two rest in their constructed state
InitSpecContract ==
    /\ InitContract /\ InitBotWith(FALSE, TRUE) /\ InitMirror /\ InitCalc

SpecContract ==
    /\ InitSpecContract
    /\ [][NextContract]_vars

InitSpecBot ==
    /\ InitBot /\ InitContract /\ maxLossPerTx = 1 /\ dailyLossLimit = 2 /\ InitMirror
    /\ InitCalc

SpecBot ==
    /\ InitSpecBot
    /\ [][NextBot]_vars

\* the bot's own pending steps: an awaited call of execute returns, or the
\* cooldown timer fires; the event loop runs each of them once it is due
Continuation ==
    /\ \/ \E ok \in BOOLEAN : SimulateDone(ok)
       \/ \E ok \in BOOLEAN, g \in GasPricesGwei : GasPriceRead(ok, g)
       \/ \E ok \in BOOLEAN : SendTransaction(ok)
       \/ \E outcome \in {"success", "reverted", "throws"} : WaitReceipt(outcome)
       \/ CooldownDone
    /\ UNCHANGED <<contractVars, mirrorVars, calcVars>>

ClockStep ==
    /\ Tick
    /\ UNCHANGED <<contractVars, mirrorVars, calcVars>>

\* the bot with its pending steps and the clock never held back for ever;
\* detections and operator requests come when they come
SpecBotFair ==
    /\ InitSpecBot
    /\ [][NextBot]_vars
    /\ WF_vars(Continuation)
    /\ WF_vars(ClockStep)

InitSpecMirror ==
    /\ InitMirror /\ InitBotWith(FALSE, TRUE)
    /\ InitContract /\ maxLossPerTx = 1 /\ dailyLossLimit = 2
    /\ InitCalc

SpecMirror ==
    /\ InitSpecMirror
    /\ [][NextMirror]_vars

\* the bot trading through the contract, with the contract's limits at 2
InitSpecPipeline ==
    /\ InitBotWith(FALSE, TRUE)
    /\ InitContract /\ maxLossPerTx = 2 /\ dailyLossLimit = 2
    /\ InitMirror
    /\ InitCalc

SpecPipeline ==
    /\ InitSpecPipeline
    /\ [][NextPipeline]_vars

\* one call of a pure function, its arguments drawn from CalcInputs
InitSpecCalc ==
    /\ calcInput \in CalcInputs
    /\ calcOutput = NoCall
    /\ InitMirror /\ InitBotWith(FALSE, TRUE)
    /\ InitContract /\ maxLossPerTx = 1 /\ dailyLossLimit = 2

SpecCalc ==
    /\ InitSpecCalc
    /\ [][NextCalc]_vars

\* the contract's flashloan entry points called with observed arguments
InitSpecFlashLoan ==
    /\ InitContract /\ maxLossPerTx = 1 /\ dailyLossLimit = 2
    /\ InitBotWith(FALSE, TRUE) /\ InitMirror /\ InitCalc

SpecFlashLoan ==
    /\ InitSpecFlashLoan
    /\ [][NextFlashLoan]_vars

\* the watchers receiving their logs in batches
InitSpecWatcher ==
    /\ InitMirror /\ InitBotWith(FALSE, TRUE)
    /\ InitContract /\ maxLossPerTx = 1 /\ dailyLossLimit = 2
    /\ InitCalc

SpecWatcher ==
    /\ InitSpecWatcher
    /\ [][NextWatcher]_vars

(***************************************************************************)
(*                     Claims about the contract                           *)
(***************************************************************************)

\* C9: the daily-loss accumulator never decreases while the window start
\* (lastResetTimestamp) stays the same, and a successful executeArbitrage at
\* or after lastResetTimestamp + 24h restarts the window at the current block
\* time with the accumulator restarted from zero (it then holds only the
\* loss of that execution).
C9_DailyLossWindow ==
    [][ /\ (lastResetTimestamp' = lastResetTimestamp => dailyLoss' >= dailyLoss)
        /\ (   /\ lastCall'.op = "executeArbitrage"
               /\ ~lastCall'.reverted
               /\ blockTime >= lastResetTimestamp + Day)
            => (lastResetTimestamp' = blockTime /\ dailyLoss' = lastCall'.loss)
        /\ (lastResetTimestamp' # lastResetTimestamp
            => blockTime >= lastResetTimestamp + Day) ]_vars

\* C9 witness: an execution at window rollover that itself realised a loss
C9_Witness ==
    /\ lastCall.op = "executeArbitrage"
    /\ ~lastCall.reverted
    /\ lastCall.loss > 0
    /\ blockTime >= Day
    /\ lastResetTimestamp = blockTime
    /\ dailyLoss = lastCall.loss

\* C10: whenever the running daily loss has reached the configured daily
\* limit the contract is paused, unless the owner lifted that pause.
C10_PausedAtLimit ==
    dailyLoss >= dailyLossLimit => (paused \/ operatorCleared)

(***************************************************************************)
(*                Claims about the queue and the executor                  *)
(***************************************************************************)

\* transactions of chain c that were sent and are not yet confirmed
InFlight(c) == {t \in txs : t.chain = c /\ t.status = "pending"}

\* C6: at most one transaction per chain is in flight (sent and unconfirmed)
\* at any time.
C6_OneInFlightPerChain == \A c \in Chains : Cardinality(InFlight(c)) <= 1

\* C7: when the simulation of a dequeued opportunity reverts, no transaction
\* is ever sent for that opportunity, and in that step failedTrades grows
\* by exactly one and the opportunity is archived as a failure.
C7_SimulationRevert ==
    /\ [](\A t \in txs : t.opp \notin simReverted)
    /\ [][\A id \in simReverted' \ simReverted :
            /\ txs' = txs
            /\ state'.failedTrades = state.failedTrades + 1
            /\ state'.successfulTrades = state.successfulTrades
            /\ state'.totalTrades = state.totalTrades + 1
            /\ Len(tradeHistory') = Len(tradeHistory) + 1
            /\ Head(tradeHistory').id = id
            /\ ~Head(tradeHistory').success]_vars

\* C7 witness: a simulation reverted and was counted
C7_Witness ==
    /\ simReverted # {}
    /\ state.failedTrades >= 1
    /\ tradeHistory # <<>>
    /\ Head(tradeHistory).error = "simulation"

\* C8: with dryRun enabled no transaction is ever sent, and every executed
\* opportunity is archived as a success with the all-zero hash and a
\* realised profit equal to its expected profit.
C8_DryRun ==
    dryRun =>
        /\ txs = {}
        /\ \A i \in 1..Len(tradeHistory) :
              /\ tradeHistory[i].success
              /\ tradeHistory[i].txHash = ZeroHash
              /\ tradeHistory[i].profit = tradeHistory[i].expected
        /\ state.failedTrades = 0
        /\ state.successfulTrades = Len(tradeHistory)

\* C8 witness: a dry run archived an opportunity
C8_Witness ==
    /\ dryRun
    /\ tradeHistory # <<>>
    /\ state.successfulTrades >= 1
    /\ state.totalProfit > 0

\* positions of the loop inside executor.execute
ExecutePcs == {"simulate", "gasPrice", "send", "receipt"}

\* C11: while the pause flag is set (by the operator through /api/pause, or
\* by the circuit breaker once the realised losses reached the daily limit)
\* no opportunity is handed to the executor; an execution that is in flight
\* is not abandoned: when it leaves execute() it is counted and archived.
C11_NoExecutionWhilePaused ==
    [][ /\ (state.isPaused \/ (paused /\ dailyLoss >= dailyLossLimit))
            => executed' = executed
        /\ (pc \in ExecutePcs /\ pc' \notin ExecutePcs)
            => /\ state'.totalTrades = state.totalTrades + 1
               /\ Head(tradeHistory').id = current.id ]_vars

\* C18: every opportunity handed to the executor was, at that moment, not
\* past its expiresAt and not below the net-profit threshold; an opportunity
\* dropped at dequeue is never executed, never archived and never counted.
C18_DropOnDequeue ==
    /\ \A i \in 1..Len(executed) :
          /\ ~executed[i].expired
          /\ ~executed[i].belowThreshold
          /\ executed[i].id \notin dropped
    /\ \A i \in 1..Len(tradeHistory) : tradeHistory[i].id \notin dropped
    /\ state.totalTrades = Len(executed) - (IF pc \in ExecutePcs THEN 1 ELSE 0)
    /\ Len(tradeHistory) = state.totalTrades

\* C18 witness: an opportunity was dropped after another one had been executed
C18_Witness ==
    /\ dropped # {}
    /\ executed # <<>>
    /\ state.totalTrades >= 1
    /\ now > Validity

\* C19: the queue never holds two pending opportunities with the same
\* ordered pool sequence.
C19_NoEquivalentPending ==
    \A i \in 1..Len(opportunityQueue), j \in 1..Len(opportunityQueue) :
        i < j => opportunityQueue[i].pools # opportunityQueue[j].pools

\* C20: no opportunity is passed to the executor twice, and an opportunity
\* that was passed to the executor or dropped is no longer in the queue.
C20_ConsumedAtMostOnce ==
    /\ \A i \in 1..Len(executed), j \in 1..Len(executed) :
          i < j => executed[i].id # executed[j].id
    /\ \A k \in 1..Len(opportunityQueue) :
          /\ opportunityQueue[k].id \notin dropped
          /\ \A i \in 1..Len(executed) : executed[i].id # opportunityQueue[k].id

\* C20 witness: a callback enqueued an opportunity while another one was in
\* flight, and both have been executed since
C20_Witness ==
    /\ ~dryRun
    /\ Len(executed) >= 2
    /\ state.totalTrades >= 2
    /\ opportunityQueue = <<>>

(***************************************************************************)
(*              Claims about the pool mirror and the detector              *)
(***************************************************************************)

\* the edges of pool p present in the graph
PoolEdges(g, p) ==
    {e \in UNION {{g.edges[t][i] : i \in 1..Len(g.edges[t])} : t \in Tokens} : e.pool = p}

\* the snapshot and the edges the event with sequence seq of pool p produces
SnapshotAt(p, seq) == Snapshot(Sub(p), EventReserves(p, seq)[1], EventReserves(p, seq)[2])
EdgesAt(p, seq) ==
    {ForwardEdge(Sub(p), EventReserves(p, seq)[1], EventReserves(p, seq)[2]),
     ReverseEdge(Sub(p), EventReserves(p, seq)[1], EventReserves(p, seq)[2])}

\* C1: for every pool, whatever the order in which its events were delivered,
\* the stored reserves and both graph edges are those of the event with the
\* highest sequence number delivered so far.
C1_LatestSequenceWins ==
    \A p \in Pools :
        Subscribed(p) =>
            /\ reserves[p] = SnapshotAt(p, highSeq[p])
            /\ PoolEdges(graph, p) = EdgesAt(p, highSeq[p])

\* C2: when the event handled last is stale (a higher sequence of the same
\* pool was delivered before it), the snapshot is still the one of the higher
\* sequence and no detector run was triggered by the stale event.
C2_StaleEventIgnored ==
    (lastDelivery.pool # "" /\ lastDelivery.seq < highSeq[lastDelivery.pool])
        => /\ reserves[lastDelivery.pool].reserve0
                 = EventReserves(lastDelivery.pool, highSeq[lastDelivery.pool])[1]
           /\ reserves[lastDelivery.pool].reserve1
                 = EventReserves(lastDelivery.pool, highSeq[lastDelivery.pool])[2]
           /\ ~lastDelivery.detectorRan

\* number of occurrences of e in the edge list s
Occurrences(s, e) == Cardinality({i \in 1..Len(s) : s[i] = e})

\* C3: applying updateReserves again with the arguments already stored for
\* the pool leaves the vertex set and, per source token, the edges (with
\* weight, reserves and fee) unchanged.
C3_SameEventIdempotent ==
    [][(monitoring /\ lastDelivery'.repeated)
        => /\ graph'.vertices = graph.vertices
           /\ \A t \in Tokens :
                 /\ Len(graph'.edges[t]) = Len(graph.edges[t])
                 /\ \A i \in 1..Len(graph.edges[t]) :
                       Occurrences(graph'.edges[t], graph.edges[t][i])
                          = Occurrences(graph.edges[t], graph.edges[t][i])]_vars

\* C3 witness: the log handled last repeated the stored reserves of a pool
\* whose two edges are in the graph
C3_Witness ==
    /\ lastDelivery.repeated
    /\ lastDelivery.seq >= 1
    /\ Cardinality(PoolEdges(graph, lastDelivery.pool)) = 2

\* the constant-product output of one step, from the mirrored reserves of its pool
ExactOut(step, amountIn) ==
    LET r == reserves[step.pool]
    IN  IF step.tokenIn = r.token0
          THEN AmountOut(r.reserve0, r.reserve1, amountIn, r.fee)
          ELSE AmountOut(r.reserve1, r.reserve0, amountIn, r.fee)

RECURSIVE ExactQuote(_, _)
ExactQuote(path, amountIn) ==
    IF path = <<>> \/ amountIn = DivByZero THEN amountIn
    ELSE ExactQuote(Tail(path), ExactOut(Head(path), amountIn))

\* the detector's configured minimum profit, in the input token
MinProfit(inputAmount) == (inputAmount * MinProfitBps) \div BpsDenominator

\* C4: every opportunity the detector returns quotes, hop by hop with the
\* exact constant-product formula from inputAmount, exactly its expectedOutput
\* (each step's amountIn being the previous step's expectedAmountOut), and its
\* expectedOutput is at least inputAmount plus the configured minimum profit.
C4_QuoteAndMinProfit ==
    \A k \in 1..Len(emitted) :
        LET o == emitted[k]
        IN  /\ o.path[1].amountIn = o.inputAmount
            /\ \A i \in 2..Len(o.path) : o.path[i].amountIn = o.path[i - 1].expectedAmountOut
            /\ ExactQuote(o.path, o.inputAmount) = o.expectedOutput
            /\ o.expectedOutput >= o.inputAmount + MinProfit(o.inputAmount)

\* C5: every opportunity the detector emits is a closed cycle: a non-empty
\* path whose steps chain token to token, starting at the source token and
\* ending at it.
C5_ClosedCycle ==
    \A k \in 1..Len(emitted) :
        LET o == emitted[k]
        IN  /\ Len(o.path) > 0
            /\ \A i \in 2..Len(o.path) : o.path[i].tokenIn = o.path[i - 1].tokenOut
            /\ o.path[1].tokenIn = o.inputToken
            /\ o.inputToken = WETH
            /\ o.path[Len(o.path)].tokenOut = o.inputToken

\* C13: in every state a detector run can read, each subscribed pool has
\* exactly its forward and its reverse edge in the graph, both derived from
\* the one snapshot stored for the pool.
C13_EdgePairFromOneSnapshot ==
    \A p \in Pools :
        Subscribed(p) =>
            PoolEdges(graph, p)
                = {ForwardEdge(Sub(p), reserves[p].reserve0, reserves[p].reserve1),
                   ReverseEdge(Sub(p), reserves[p].reserve0, reserves[p].reserve1)}

\* C13 witness: a detector run after a Sync of PD changed its reserves, while
\* PC, over the same token pair, keeps its own two edges
C13_Witness ==
    /\ lastDelivery.detectorRan
    /\ lastDelivery.pool = "PD"
    /\ ~lastDelivery.repeated
    /\ Subscribed("PC")
    /\ Cardinality(PoolEdges(graph, "PC")) = 2
    /\ Cardinality(PoolEdges(graph, "PD")) = 2

\* C14: no emitted opportunity is a two-hop cycle through one pool.
C14_NoSamePoolTwoCycle ==
    \A k \in 1..Len(emitted) :
        ~(Len(emitted[k].path) = 2 /\ emitted[k].path[1].pool = emitted[k].path[2].pool)

\* C14 witness: the detector emitted opportunities from a graph in which the
\* source token has a pool whose two edges form a two-hop cycle
C14_Witness ==
    /\ lastDelivery.detectorRan
    /\ emitted # <<>>
    /\ Cardinality(PoolEdges(graph, "PA")) = 2
    /\ \E k \in 1..Len(emitted) : emitted[k].path[1].pool = "PA"

\* the subscribed pools whose stored reserves are both zero
ZeroPools == {p \in Pools : Subscribed(p) /\ reserves[p].reserve0 = 0
                                          /\ reserves[p].reserve1 = 0}

\* the graph without the edges of the pools ps
WithoutPools(g, ps) ==
    [g EXCEPT !.edges = [t \in Tokens |-> SelectSeq(g.edges[t], LAMBDA e : e.pool \notin ps)]]

\* the candidate cycles of one detector run: traced from the flagged
\* vertices, then enumerated by the depth-first search
Candidates(g, source) ==
    LET st == BellmanFord(g, source)
        flagged == NegativeCycleVertices(g, g.keys, st.distance, <<>>)
    IN  TracedCycles(flagged, st.predecessor, source) \o FindDirectCycles(g, source)

UsesPool(cycle, ps) == \E i \in 1..Len(cycle) : cycle[i].pool \in ps

\* C16: both edges of a pool with zero reserves have rate 0 and weight
\* +infinity; such an edge is never a predecessor and leaves every distance
\* as it is without it; no candidate cycle through the pool is pushed and no
\* emitted opportunity runs through it.
C16_ZeroReservesAbsent ==
    ZeroPools # {} =>
        /\ \A p \in ZeroPools : \A e \in PoolEdges(graph, p) :
              /\ CalculateRate(e.reserve0, e.reserve1, RefAmount, e.fee).amountOut = 0
              /\ e.weight = Infinity
        /\ LET st == BellmanFord(graph, WETH)
           IN  /\ \A v \in DOMAIN st.predecessor : st.predecessor[v].pool \notin ZeroPools
               /\ st.distance = BellmanFord(WithoutPools(graph, ZeroPools), WETH).distance
        /\ LET cycles == Candidates(graph, WETH)
           IN  \A i \in 1..Len(cycles) :
                  UsesPool(cycles[i], ZeroPools) =>
                      LET built == BuildOpportunity(cycles[i], InputAmount)
                      IN  built.threw \/ built.opportunity.expectedProfit <= 0
        /\ \A k \in 1..Len(emitted) : \A i \in 1..Len(emitted[k].path) :
              emitted[k].path[i].pool \notin ZeroPools

\* C16 witness: the detector ran with a zero-reserve pool next to a token
\* the relaxation reached, and candidate cycles run through that pool
C16_Witness ==
    /\ ZeroPools # {}
    /\ lastDelivery.detectorRan
    /\ WETH \in graph.vertices
    /\ ~IsInf(BellmanFord(graph, WETH).distance[1])
    /\ \E i \in 1..Len(Candidates(graph, WETH)) :
          UsesPool(Candidates(graph, WETH)[i], ZeroPools)

(***************************************************************************)
(*                    Claims about single calls                            *)
(***************************************************************************)

\* the edge of pool p from token `from`, if the graph has exactly one
EdgeOf(g, p, from) ==
    LET found == {e \in PoolEdges(g, p) : e.from = from}
    IN  IF Cardinality(found) = 1 THEN CHOOSE e \in found : TRUE ELSE NoEdge

\* C12: after updateReserves the graph holds both edges of the pool, the sum
\* of their weights is not negative, and at the reference input the product
\* of the two integer quotes does not exceed the square of the input.
C12_RoundTripCost ==
    (calcOutput.op = "updateReserves") =>
        LET r == reserves["PA"]
            fwd == EdgeOf(graph, "PA", r.token0)
            rev == EdgeOf(graph, "PA", r.token1)
        IN  /\ fwd # NoEdge /\ fwd.to = r.token1
            /\ rev # NoEdge /\ rev.to = r.token0
            /\ Plus(fwd.weight, rev.weight) >= 0
            /\ AmountOut(r.reserve0, r.reserve1, RefAmount, r.fee)
                  * AmountOut(r.reserve1, r.reserve0, RefAmount, r.fee)
                <= RefAmount * RefAmount

\* C12 witness: a pool with reserves above the reference input on both sides
\* and no fee, where the round trip returns almost the whole input
C12_Witness ==
    /\ calcOutput.op = "updateReserves"
    /\ reserves["PA"].fee = 0
    /\ reserves["PA"].reserve0 > RefAmount
    /\ reserves["PA"].reserve1 > reserves["PA"].reserve0
    /\ ~IsInf(EdgeOf(graph, "PA", 1).weight)
    /\ EdgeOf(graph, "PA", 1).weight < 0

\* C15: findArbitrageOpportunities on the empty graph returns an empty list
\* and does not throw.
C15_EmptyGraph ==
    (calcOutput.op = "findArbitrageOpportunities" /\ graph = EmptyGraph) =>
        /\ ~calcOutput.result.threw
        /\ calcOutput.result.opportunities = <<>>

\* C15 witness: the detector ran on the empty graph
C15_Witness ==
    /\ calcOutput.op = "findArbitrageOpportunities"
    /\ graph = EmptyGraph
    /\ calcInput.inputAmount = InputAmount

\* C17: minProfit is floor(expectedProfit * (10000 - maxSlippageBps) / 10000).
C17_MinProfit ==
    (calcOutput.op = "buildArbitrageParams") =>
        calcOutput.params.minProfit
            = (calcInput.expectedProfit * (BpsDenominator - calcInput.maxSlippageBps))
                 \div BpsDenominator


\* C21: the trade history keeps the latest MAX_HISTORY = 100 records, newest
\* first: adding the record of an executed opportunity puts exactly that one
\* record at the front, keeps the older records behind it in their order,
\* drops only the oldest ones, and never leaves more than 100 records.
C21_BoundedHistory ==
    calcOutput.op = "unshift" =>
        LET before == calcInput.history
            after == calcOutput.history
        IN  /\ Len(after) <= MAX_HISTORY
            /\ Len(after) = IF Len(before) < MAX_HISTORY THEN Len(before) + 1
                            ELSE MAX_HISTORY
            /\ after[1] = calcInput.rec
            /\ \A i \in 2..Len(after) : after[i] = before[i - 1]
            /\ \A i \in 1..(Len(after) - 1) : after[i].id > after[i + 1].id

\* C21 witness: a record was added to a full history, which dropped the oldest
C21_Witness ==
    /\ calcOutput.op = "unshift"
    /\ Len(calcInput.history) = MAX_HISTORY
    /\ Len(calcOutput.history) = MAX_HISTORY
    /\ calcOutput.history[1] = calcInput.rec
    /\ calcOutput.history[MAX_HISTORY] = calcInput.history[MAX_HISTORY - 1]

\* the contract's storage and its flashToken balance
Storage == <<approvedRouters, maxLossPerTx, dailyLossLimit, dailyLoss,
             lastResetTimestamp, paused, beneficiary, balance>>

\* C22: a flashloan callback completes only if the final flashToken balance
\* minus principal plus fee is at least minProfit; a completed callback has
\* repaid the vault exactly principal + fee and sent all that remained to the
\* beneficiary, leaving nothing in the contract; when the final balance falls
\* short the transaction reverts, and a reverted transaction changes no state.
C22_ProfitOrRevert ==
    [][ (lastCall'.op \in {"receiveFlashLoan", "executeArbitrage"}) =>
          LET repayAmount == calcInput'.amount + calcInput'.feeAmount
              remaining == calcInput'.balanceAfter - repayAmount
          IN  /\ ~lastCall'.reverted =>
                    /\ remaining >= calcInput'.minProfit
                    /\ lastCall'.repaid = repayAmount
                    /\ lastCall'.paidOut = remaining
                    /\ balance' = 0
              /\ remaining < calcInput'.minProfit => lastCall'.reverted
              /\ lastCall'.reverted => UNCHANGED Storage ]_vars

\* C22 witness: a callback with a fee completed, the vault got principal + fee
\* and the beneficiary a positive remainder
C22_Witness ==
    /\ lastCall.op = "receiveFlashLoan"
    /\ ~lastCall.reverted
    /\ calcInput.feeAmount > 0
    /\ calcInput.minProfit > 0
    /\ lastCall.repaid = calcInput.amount + calcInput.feeAmount
    /\ lastCall.paidOut > 0
    /\ balance = 0

\* C23: while the contract is paused, every executeArbitrage call reverts
\* with Paused and changes nothing: no flashloan runs (nothing is repaid or
\* paid out), dailyLoss and lastResetTimestamp keep their values even when the
\* 24h window has elapsed.
C23_PausedReverts ==
    [][ (lastCall'.op = "executeArbitrage" /\ paused) =>
            /\ lastCall'.reverted
            /\ lastCall'.error = "Paused"
            /\ lastCall'.repaid = 0 /\ lastCall'.paidOut = 0
            /\ UNCHANGED Storage ]_vars

\* C23 witness: executeArbitrage was refused with Paused in a state where the
\* window had elapsed and a loss was on the accumulator
C23_Witness ==
    /\ paused
    /\ lastCall.op = "executeArbitrage"
    /\ lastCall.reverted /\ lastCall.error = "Paused"
    /\ blockTime >= lastResetTimestamp + Day
    /\ dailyLoss > 0
    /\ approvedRouters # {}

\* C24: receiveFlashLoan runs its swaps only for the Balancer vault: a call
\* from any other sender reverts with NotBalancerVault, nothing is swapped,
\* repaid or paid out, dailyLoss and the pause flag keep their values; a
\* receiveFlashLoan call that completes was sent by the vault.
C24_OnlyVaultCallback ==
    [][ (lastCall'.op = "receiveFlashLoan") =>
            /\ (calcInput'.sender # BALANCER_VAULT =>
                    /\ lastCall'.reverted
                    /\ lastCall'.error = "NotBalancerVault"
                    /\ lastCall'.repaid = 0 /\ lastCall'.paidOut = 0
                    /\ lastCall'.loss = 0
                    /\ UNCHANGED Storage)
            /\ (~lastCall'.reverted => calcInput'.sender = BALANCER_VAULT) ]_vars

\* C24 witness: a stranger's call was refused although its swaps would have
\* passed every later check and moved the contract's balance
C24_Witness ==
    /\ lastCall.op = "receiveFlashLoan"
    /\ calcInput.sender = Attacker
    /\ lastCall.reverted /\ lastCall.error = "NotBalancerVault"
    /\ approvedRouters # {}
    /\ balance > 0
    /\ calcInput.balanceAfter >= calcInput.amount + calcInput.feeAmount + calcInput.minProfit
    /\ calcInput.balanceAfter >= balance + calcInput.amount

AdminOps == {"setRouterApproval", "setBeneficiary", "setCircuitBreaker", "setPaused"}

\* C25: every admin call (setRouterApproval, setBeneficiary, setCircuitBreaker,
\* setPaused) sent by an account other than the owner reverts and changes
\* nothing, and the router allowlist, the beneficiary and the two
\* circuit-breaker limits change only in an admin call sent by the owner.
C25_OnlyOwnerAdmin ==
    [][ /\ (lastCall'.op \in AdminOps /\ lastCall'.sender # Owner) =>
                /\ lastCall'.reverted
                /\ UNCHANGED Storage
        /\ (<<approvedRouters, beneficiary, maxLossPerTx, dailyLossLimit>>' #
            <<approvedRouters, beneficiary, maxLossPerTx, dailyLossLimit>>) =>
                /\ lastCall'.op \in AdminOps \ {"setPaused"}
                /\ lastCall'.sender = Owner
                /\ ~lastCall'.reverted ]_vars

\* C25 witness: a non-owner's setBeneficiary naming itself was refused after
\* the owner had configured the contract
C25_Witness ==
    /\ lastCall.op = "setBeneficiary"
    /\ lastCall.sender = Attacker
    /\ lastCall.reverted
    /\ beneficiary = "beneficiary"
    /\ approvedRouters # {}

\* the edges of the graph
GraphEdges(g) == UNION {{g.edges[t][i] : i \in 1..Len(g.edges[t])} : t \in Tokens}

\* the edge sequences of n edges that leave the source, follow on from one
\* another, return to the source and use no (from, to, pool) triple twice
CyclesOfLength(g, source, n) ==
    {c \in [1..n -> GraphEdges(g)] :
        /\ c[1].from = source
        /\ c[n].to = source
        /\ \A i \in 1..(n - 1) : c[i].to = c[i + 1].from
        /\ \A i, j \in 1..n : i # j => EdgeKey(c[i]) # EdgeKey(c[j])}

\* C26: the depth-first enumeration from the source emits exactly the cycles
\* of 2..K edges (K = 3) that return to the source without using a
\* (from, to, pool) triple twice: no emitted cycle has more than K edges, the
\* triples of an emitted cycle are pairwise distinct, and every such cycle of
\* 2 or 3 edges in the graph is emitted.
C26_DirectCycles ==
    LET cycles == FindDirectCycles(graph, WETH)
    IN  /\ \A k \in 1..Len(cycles) :
              /\ Len(cycles[k]) >= 2
              /\ Len(cycles[k]) <= MaxHops
              /\ \A i, j \in 1..Len(cycles[k]) :
                    i # j => EdgeKey(cycles[k][i]) # EdgeKey(cycles[k][j])
        /\ \A n \in 2..MaxHops : \A c \in CyclesOfLength(graph, WETH, n) :
              \E k \in 1..Len(cycles) : cycles[k] = c

\* C27: in dry-run mode only the submit step is skipped: the simulate step
\* and the gas gate still run, so an executed opportunity is archived only
\* out of the simulate step (as a failure when it reverts), out of the gas
\* gate (as a failure above the ceiling) or out of the skipped submit step
\* that follows them, never straight from the queue.
C27_DryRunStillChecks ==
    [][ (dryRun /\ tradeHistory' # tradeHistory) =>
            pc \in {"simulate", "gasPrice", "send"} ]_vars

\* C28: the gas gate. When the gas price read before submission is above
\* max-gas-price the opportunity is archived as a failure in that step and
\* no transaction is ever sent for it; when the price is at or below the
\* ceiling the executor moves on to the submit step and nothing is archived.
C28_GasGate ==
    /\ [](\A t \in txs : \A i \in 1..Len(tradeHistory) :
            tradeHistory[i].id = t.opp => tradeHistory[i].error # "gasPrice")
    /\ [][ pc = "gasPrice" =>
             \A g \in GasPricesGwei :
                GasPriceRead(TRUE, g) =>
                   IF g > MaxGasPriceGwei
                     THEN /\ txs' = txs
                          /\ pc' # "send"
                          /\ state'.failedTrades = state.failedTrades + 1
                          /\ state'.successfulTrades = state.successfulTrades
                          /\ Len(tradeHistory') = Len(tradeHistory) + 1
                          /\ Head(tradeHistory').id = current.id
                          /\ ~Head(tradeHistory').success
                     ELSE /\ pc' = "send"
                          /\ current' = current
                          /\ UNCHANGED <<state, tradeHistory, txs>> ]_vars

\* C28 witness: the gate refused one opportunity, which has no transaction,
\* and let another one through to submission
C28_Witness ==
    /\ \E i \in 1..Len(tradeHistory) :
          /\ tradeHistory[i].error = "gasPrice"
          /\ \A t \in txs : t.opp # tradeHistory[i].id
    /\ txs # {}

\* gasEstimate * gasPrice in units of 10^14 wei, the unit of expectedProfit
EstimatedGasCost(gasEstimate, gasPriceGwei) == (gasEstimate * gasPriceGwei) \div 100000

\* C29: with simulation enabled, an opportunity whose simulation succeeded
\* and whose estimated gas cost (the gas estimate at the gas price read)
\* exceeds its expected profit by more than 50% is disqualified: the
\* executor does not go on to submit it.
C29_GasCostGate ==
    [][ (pc = "gasPrice" /\ simulateBeforeExecute) =>
            \A g \in GasPricesGwei :
                (/\ GasPriceRead(TRUE, g)
                 /\ 2 * EstimatedGasCost(current.gasEstimate, g) > 3 * current.expectedProfit)
                => pc' # "send" ]_vars

\* C30: a submitted transaction is never retried. At most one transaction is
\* ever sent for an opportunity and an opportunity is archived at most once;
\* when the wait for the receipt ends, the opportunity is archived in that
\* step, as exactly one failed trade if the transaction reverted or the wait
\* failed, no transaction is sent in that step, and the executor leaves the
\* opportunity for the cooldown.
C30_NoRetry ==
    /\ [](\A t1, t2 \in txs : t1.opp = t2.opp => t1.hash = t2.hash)
    /\ [](\A i, j \in 1..Len(tradeHistory) :
            tradeHistory[i].id = tradeHistory[j].id => i = j)
    /\ [][ (pc = "receipt" /\ pc' # "receipt") =>
             /\ pc' = "cooldown"
             /\ current' = NoOpp
             /\ {t.hash : t \in txs'} = {t.hash : t \in txs}
             /\ Len(tradeHistory') = Len(tradeHistory) + 1
             /\ Head(tradeHistory').id = current.id
             /\ state'.totalTrades = state.totalTrades + 1
             /\ \A t \in txs' :
                   (t.hash = currentTx /\ t.status # "success") =>
                       /\ ~Head(tradeHistory').success
                       /\ state'.failedTrades = state.failedTrades + 1
                       /\ state'.successfulTrades = state.successfulTrades ]_vars

\* C30 witness: a submitted transaction reverted, its opportunity is archived
\* as a failure, and the executor has since gone through the rest of the queue
C30_Witness ==
    /\ \E t \in txs :
          /\ t.status = "reverted"
          /\ \E i \in 1..Len(tradeHistory) :
                tradeHistory[i].id = t.opp /\ ~tradeHistory[i].success
                /\ tradeHistory[i].txHash = t.hash
    /\ Len(tradeHistory) >= 2
    /\ pc = "idle"

(***************************************************************************)
(*        Claims about the watchers, the detector's list and the queue     *)
(***************************************************************************)

\* C31: detector runs are debounced: of the pool updates handed to the
\* watcher in one batch the first starts a run and those that wait behind it
\* are coalesced into a single follow-up run, so a batch of k updates causes
\* at most two detector runs, not k.
C31_CoalescedRuns ==
    calcOutput.op = "onLogs" => calcOutput.runs <= 2

\* C32: a failure while one pool event is handled drops that event only: after
\* a batch every decodable event of the batch has been applied, so the mirror
\* holds the reserves of the last decodable event of the batch.
C32_OnlyFailedEventDropped ==
    (calcOutput.op = "onLogs" /\ calcInput.decodable # <<>>) =>
        LET p == calcInput.pool
            last == calcInput.decodable[Len(calcInput.decodable)]
            r == EventReserves(p, last)
        IN  /\ calcOutput.applied = Len(calcInput.decodable)
            /\ reserves[p] = Snapshot(Sub(p), r[1], r[2])

\* the opportunity with this id is waiting in the queue
Queued(id) == \E i \in 1..Len(opportunityQueue) : opportunityQueue[i].id = id

\* the opportunity with this id is waiting in the queue past its expiration
QueuedExpired(id) ==
    \E i \in 1..Len(opportunityQueue) :
        opportunityQueue[i].id = id /\ now > opportunityQueue[i].expiresAt

\* C33: expired opportunities are collected even when nothing is dequeued: an
\* opportunity that waits in the queue past its expiration is eventually
\* removed from the queue, also while the bot is paused or idle.
C33_ExpiredCollected ==
    \A id \in 1..MaxOpps : QueuedExpired(id) ~> ~Queued(id)

\* C39: every opportunity that is enqueued is eventually dequeued (executed
\* or dropped) unless the bot stays paused for ever: once the operator has
\* resumed, what is still pending is processed without a further detection.
C39_EnqueuedEventuallyDequeued ==
    \A id \in 1..MaxOpps :
        ([]<>(~state.isPaused)) => (Queued(id) ~> ~Queued(id))

\* the ordered (from, to, pool) steps of an opportunity
EdgeSequence(o) ==
    [i \in 1..Len(o.path) |-> <<o.path[i].tokenIn, o.path[i].tokenOut, o.path[i].pool>>]

\* C34: the list returned by one call of findArbitrageOpportunities holds no
\* two opportunities with the same edge sequence, whether they come from two
\* flagged Bellman-Ford vertices, from the depth-first enumeration, or from
\* one of each.
C34_NoDuplicateOpportunity ==
    \A i, j \in 1..Len(emitted) :
        i # j => EdgeSequence(emitted[i]) # EdgeSequence(emitted[j])

\* C34 witness: a cycle traced from a flagged Bellman-Ford vertex is found
\* again by the depth-first enumeration, and the list that was returned
\* holds its opportunity together with another one
C34_Witness ==
    LET st == BellmanFord(graph, WETH)
        flagged == NegativeCycleVertices(graph, graph.keys, st.distance, <<>>)
        traced == TracedCycles(flagged, st.predecessor, WETH)
        direct == FindDirectCycles(graph, WETH)
    IN  /\ lastDelivery.detectorRan
        /\ ~lastDelivery.threw
        /\ Len(emitted) >= 2
        /\ \E i \in 1..Len(traced), j \in 1..Len(direct), k \in 1..Len(emitted) :
              /\ traced[i] = direct[j]
              /\ EdgeSequence(emitted[k]) = [n \in 1..Len(traced[i]) |-> EdgeKey(traced[i][n])]

\* a comes before b under the tie-break rule: higher profit, then higher
\* confidence, then earlier timestamp
RankedBefore(a, b) ==
    \/ a.expectedProfit > b.expectedProfit
    \/ /\ a.expectedProfit = b.expectedProfit
       /\ a.confidence > b.confidence
    \/ /\ a.expectedProfit = b.expectedProfit
       /\ a.confidence = b.confidence
       /\ a.timestamp <= b.timestamp

\* C35: the opportunities the detector returns are ordered by the tie-break
\* rule: higher expected profit first, among equal profit higher confidence
\* first, among equal confidence earlier timestamp first.
C35_TieBreakOrder ==
    calcOutput.op = "sort" =>
        \A i \in 1..(Len(calcOutput.opportunities) - 1) :
            RankedBefore(calcOutput.opportunities[i], calcOutput.opportunities[i + 1])

\* C36: a flashloan callback whose swaps lose more than maxLossPerTx reverts
\* with MaxLossExceeded and leaves dailyLoss and paused as they were; a loss
\* within the ceiling is added to dailyLoss, and the contract is paused by
\* the callback exactly when the accumulated dailyLoss has reached
\* dailyLossLimit.
C36_LossCeilings ==
    [][ (/\ lastCall'.op \in {"receiveFlashLoan", "executeArbitrage"}
         /\ lastCall'.error \notin {"NotBalancerVault", "Paused", "RouterNotApproved"}) =>
          LET loss == (balance + calcInput'.amount) - calcInput'.balanceAfter
              dl == IF lastCall'.op = "executeArbitrage" /\ WindowElapsed
                      THEN 0 ELSE dailyLoss
          IN  /\ loss > maxLossPerTx =>
                    /\ lastCall'.reverted
                    /\ lastCall'.error = "MaxLossExceeded"
                    /\ UNCHANGED <<dailyLoss, paused>>
              /\ (loss > 0 /\ loss <= maxLossPerTx) =>
                    /\ ~lastCall'.reverted
                    /\ dailyLoss' = dl + loss
                    /\ paused' = (paused \/ dailyLoss' >= dailyLossLimit) ]_vars

\* the mirrored reserve of token t in the pool of edge e
ReserveOf(e, t) ==
    IF t = reserves[e.pool].token0 THEN reserves[e.pool].reserve0
                                   ELSE reserves[e.pool].reserve1

\* C37: for every edge of the graph, in either direction of its pool, the
\* quote of buildOpportunity takes the reserve of the edge's source token as
\* reserveIn and the reserve of its destination token as reserveOut, the
\* orientation its weight was computed with: the amount quoted for the edge
\* is the constant-product output from source reserve to destination reserve.
C37_QuoteOrientation ==
    \A e \in GraphEdges(graph) :
        SwapSteps(<<e>>, InputAmount)[1].expectedAmountOut
            = AmountOut(ReserveOf(e, e.from), ReserveOf(e, e.to), InputAmount, e.fee)

\* C38: findArbitrageOpportunities terminates and returns a list without
\* raising for every graph whose pools have non-negative reserves and fees in
\* [0, 10000) bps, graphs with zero-reserve pools on consecutive hops
\* included: no detector run ends in a throw.
C38_DetectorNeverRaises ==
    lastDelivery.detectorRan => ~lastDelivery.threw

\* C40: the isProcessing guard is held only while a processQueue loop is
\* active: every exit of the loop (queue drained, pause observed, whatever
\* the executor returned) releases it, so isProcessing is true exactly in the
\* states where a loop is suspended at one of its awaits; and two loops never
\* run at once: while a loop is active only its own step after the cooldown
\* takes an opportunity off the queue or hands one to the executor.
C40_GuardHeldByActiveLoop ==
    /\ [](isProcessing <=> pc # "idle")
    /\ [][ (\/ Len(executed') > Len(executed)
            \/ Len(opportunityQueue') < Len(opportunityQueue)) =>
              \/ pc = "idle" /\ ~isProcessing
              \/ pc = "cooldown" ]_vars

\* C40 witness: a loop has handed an opportunity to the executor and has then
\* left on a pause with opportunities still queued, and the guard is released
C40_Witness ==
    /\ executed # <<>>
    /\ state.isPaused
    /\ opportunityQueue # <<>>
    /\ pc = "idle"
    /\ ~isProcessing

====
